---- MODULE Spec2Model ----
(***************************************************************************)
(* Model of the formatting-code engine of xulbux (src/xulbux/              *)
(* format_codes.py): to_ansi, escape, remove, remove_ansi and the helpers  *)
(* they are built from.                                                    *)
(*                                                                         *)
(* A Python str is modelled as a sequence of characters, every character   *)
(* being a one-character TLA+ string; the escape character U+001B is the   *)
(* value ESC.  Regular expressions are modelled by matchers that try the   *)
(* alternatives in the order the backtracking engine tries them.           *)
(***************************************************************************)
EXTENDS Integers, Sequences, FiniteSets, TLC

\* ANSI.CHAR, the character U+001B
ESC == "ESC"
\* the value a call yields when it raises ValueError out of Color.adjust_lightness
ERR == "ValueError(lightness_change)"
\* default_color=None
None == <<>>

(***************************************************************************)
(* Characters and strings                                                  *)
(***************************************************************************)
Digits == {"0", "1", "2", "3", "4", "5", "6", "7", "8", "9"}
HexLetters == {"a", "b", "c", "d", "e", "f"}
\* the characters the regex class \s matches
WhiteSpace == {" ", "\t", "\n", "\r", "\f"}
UpperToLower ==
  [c \in {"A", "B", "C", "D", "E", "F", "G", "H", "I", "J", "K", "L", "M", "N", "O", "P", "Q",
          "R", "S", "T", "U", "V", "W", "X", "Y", "Z"} |->
     CASE c = "A" -> "a" [] c = "B" -> "b" [] c = "C" -> "c" [] c = "D" -> "d" [] c = "E" -> "e"
       [] c = "F" -> "f" [] c = "G" -> "g" [] c = "H" -> "h" [] c = "I" -> "i" [] c = "J" -> "j"
       [] c = "K" -> "k" [] c = "L" -> "l" [] c = "M" -> "m" [] c = "N" -> "n" [] c = "O" -> "o"
       [] c = "P" -> "p" [] c = "Q" -> "q" [] c = "R" -> "r" [] c = "S" -> "s" [] c = "T" -> "t"
       [] c = "U" -> "u" [] c = "V" -> "v" [] c = "W" -> "w" [] c = "X" -> "x" [] c = "Y" -> "y"
       [] c = "Z" -> "z"]
UpperLetters == DOMAIN UpperToLower
LowerLetters == {UpperToLower[c] : c \in UpperLetters}

\* str.lower()
lower(s) == [i \in 1..Len(s) |-> IF s[i] \in UpperLetters THEN UpperToLower[s[i]] ELSE s[i]]

Range(s) == {s[i] : i \in 1..Len(s)}
Slice(s, a, b) == SubSeq(s, a, b)
Drop(s, n) == SubSeq(s, n + 1, Len(s))
\* whether the string `sub` occurs in s at position p
OccursAt(s, p, sub) == p >= 1 /\ p + Len(sub) - 1 <= Len(s) /\ SubSeq(s, p, p + Len(sub) - 1) = sub
startswith(s, sub) == OccursAt(s, 1, sub)
Contains(s, sub) == \E p \in 1..(Len(s) + 1) : OccursAt(s, p, sub)
CharAt(s, p) == IF p >= 1 /\ p <= Len(s) THEN s[p] ELSE "EOF"

RECURSIVE Concat(_)
\* "".join(list)
Concat(list) == IF list = <<>> THEN <<>> ELSE Head(list) \o Concat(Tail(list))

RECURSIVE JoinWith(_, _)
\* sep.join(list)
JoinWith(sep, list) ==
  IF list = <<>> THEN <<>>
  ELSE IF Len(list) = 1 THEN list[1]
  ELSE list[1] \o sep \o JoinWith(sep, Tail(list))

RECURSIVE SplitFrom(_, _, _, _)
SplitFrom(s, ch, start, p) ==
  IF p > Len(s) THEN <<SubSeq(s, start, Len(s))>>
  ELSE IF s[p] = ch THEN <<SubSeq(s, start, p - 1)>> \o SplitFrom(s, ch, p + 1, p + 1)
  ELSE SplitFrom(s, ch, start, p + 1)
\* str.split(ch) for a one-character separator
split(s, ch) == SplitFrom(s, ch, 1, 1)

RECURSIVE LStrip(_)
LStrip(s) == IF s # <<>> /\ Head(s) \in WhiteSpace THEN LStrip(Tail(s)) ELSE s
RECURSIVE RStrip(_)
RStrip(s) == IF s # <<>> /\ s[Len(s)] \in WhiteSpace THEN RStrip(SubSeq(s, 1, Len(s) - 1)) ELSE s
\* str.strip()
strip(s) == RStrip(LStrip(s))

RECURSIVE IntToStr(_)
\* str(n) for n >= 0, as the format fields of the ANSI templates render it
IntToStr(n) ==
  LET d == <<"0", "1", "2", "3", "4", "5", "6", "7", "8", "9">>
  IN IF n < 10 THEN <<d[n + 1]>> ELSE IntToStr(n \div 10) \o <<d[(n % 10) + 1]>>

DigitVal(c) ==
  CASE c = "0" -> 0 [] c = "1" -> 1 [] c = "2" -> 2 [] c = "3" -> 3 [] c = "4" -> 4
    [] c = "5" -> 5 [] c = "6" -> 6 [] c = "7" -> 7 [] c = "8" -> 8 [] c = "9" -> 9
    [] c \in {"a", "A"} -> 10 [] c \in {"b", "B"} -> 11 [] c \in {"c", "C"} -> 12
    [] c \in {"d", "D"} -> 13 [] c \in {"e", "E"} -> 14 [] c \in {"f", "F"} -> 15
RECURSIVE StrToInt(_, _)
\* int(s, base) of a string of digits
StrToInt(s, base) ==
  IF s = <<>> THEN 0 ELSE StrToInt(SubSeq(s, 1, Len(s) - 1), base) * base + DigitVal(s[Len(s)])

\* an ordered list of positions without repetition: b appended to a
AppendNew(a, b) == a \o SelectSeq(b, LAMBDA x : x \notin Range(a))

(***************************************************************************)
(* The tokenizer: _PATTERNS.formatting, built from Regex.brackets.         *)
(*                                                                         *)
(*   P   = B (?: ([/\\]?) Par )?                  the whole pattern, (?R)  *)
(*   B   = \[ ( \s* (?: X | N1 )* \s* ) \]        X  = [^\[\]]             *)
(*   N1  = \[ (?: X | (?R) )* \]                                           *)
(*   Par = \( ( \s* (?: Y | M1 )* \s* ) \)        Y  = [^\(\)]             *)
(*   M1  = \( (?: Y | (?R) )* \)                                           *)
(*                                                                         *)
(* Every matcher gives, for a start position, the end positions (the       *)
(* position after the last matched character) in the order in which the    *)
(* backtracking engine reaches them: greedy repetition first, alternatives *)
(* left to right.  What follows a sub-pattern depends on the end position  *)
(* only, so a position is listed once, at its first occurrence.  Groups    *)
(* captured inside a recursive call are discarded when the call returns.   *)
(***************************************************************************)
IsX(c) == c \notin {"[", "]", "EOF"}
IsY(c) == c \notin {"(", ")", "EOF"}

\* the end of the run from q on of characters that are not in `stops`
RunEnd(s, q, stops) ==
  IF \E r \in q..Len(s) : s[r] \in stops
  THEN CHOOSE r \in q..Len(s) : s[r] \in stops /\ \A j \in q..(r - 1) : s[j] \notin stops
  ELSE Len(s) + 1
\* the positions r - 1, r - 2, ..., q: the ends a greedy repetition over the run q..r - 1
\* gives up one character at a time
Descending(q, r) == [i \in 1..(r - q) |-> r - i]

\* the ends in `ends` that are followed by the character ch, moved behind it
ClosedBy(s, ends, ch) ==
  LET sel == SelectSeq(ends, LAMBDA e : CharAt(s, e) = ch)
  IN [i \in 1..Len(sel) |-> sel[i] + 1]

RECURSIVE SpaceRun(_, _)
\* the number of \s characters from position p on
SpaceRun(s, p) == IF CharAt(s, p) \in WhiteSpace THEN 1 + SpaceRun(s, p + 1) ELSE 0

\* greedy \s* from position e: the longest run first
SpaceEnds(s, e) == LET n == SpaceRun(s, e) IN [i \in 1..(n + 1) |-> e + n + 1 - i]

RECURSIVE SpaceEndsOver(_, _)
\* \s* from each of the ends, which are listed once: where no end is followed by a \s
\* character every \s* is empty and the ends stay as they are
SpaceEndsOver(s, ends) ==
  IF \A i \in 1..Len(ends) : CharAt(s, ends[i]) \notin WhiteSpace THEN ends
  ELSE AppendNew(SpaceEnds(s, Head(ends)), SpaceEndsOver(s, Tail(ends)))

RECURSIVE PEnds(_, _), BEnds(_, _), ParEnds(_, _), StarXN(_, _), StarXNOver(_, _), N1Ends(_, _)
RECURSIVE StarXP(_, _), StarXPOver(_, _), StarYM(_, _), StarYMOver(_, _), M1Ends(_, _)
RECURSIVE StarYP(_, _), StarYPOver(_, _), OptEndsOver(_, _), CLead(_, _, _), DLead(_, _, _)

\* (?: X | N1 )* from q: a run of X is taken whole, then one character less at a time
StarXN(s, q) ==
  LET c == CharAt(s, q)
  IN IF IsX(c) THEN StarXN(s, RunEnd(s, q, {"[", "]"})) \o Descending(q, RunEnd(s, q, {"[", "]"}))
     ELSE IF c = "[" THEN AppendNew(StarXNOver(s, N1Ends(s, q)), <<q>>)
     ELSE <<q>>
StarXNOver(s, ends) ==
  IF ends = <<>> THEN <<>> ELSE AppendNew(StarXN(s, Head(ends)), StarXNOver(s, Tail(ends)))

\* \[ (?: X | (?R) )* \] at q
N1Ends(s, q) == IF CharAt(s, q) = "[" THEN ClosedBy(s, StarXP(s, q + 1), "]") ELSE <<>>

\* (?: X | (?R) )* from q
StarXP(s, q) ==
  LET c == CharAt(s, q)
  IN IF IsX(c) THEN StarXP(s, RunEnd(s, q, {"[", "]"})) \o Descending(q, RunEnd(s, q, {"[", "]"}))
     ELSE IF c = "[" THEN AppendNew(StarXPOver(s, PEnds(s, q)), <<q>>)
     ELSE <<q>>
StarXPOver(s, ends) ==
  IF ends = <<>> THEN <<>> ELSE AppendNew(StarXP(s, Head(ends)), StarXPOver(s, Tail(ends)))

\* \s* (?: X | N1 )* \s*  with the leading \s* taking k characters, then fewer
CLead(s, q, k) ==
  AppendNew(SpaceEndsOver(s, StarXN(s, q + k)), IF k = 0 THEN <<>> ELSE CLead(s, q, k - 1))

\* Regex.brackets("[", "]", is_group=True, ignore_in_strings=False) at p
BEnds(s, p) ==
  IF CharAt(s, p) = "[" THEN ClosedBy(s, CLead(s, p + 1, SpaceRun(s, p + 1)), "]") ELSE <<>>

\* (?: Y | M1 )* from q
StarYM(s, q) ==
  LET c == CharAt(s, q)
  IN IF IsY(c) THEN StarYM(s, RunEnd(s, q, {"(", ")"})) \o Descending(q, RunEnd(s, q, {"(", ")"}))
     ELSE IF c = "(" THEN AppendNew(StarYMOver(s, M1Ends(s, q)), <<q>>)
     ELSE <<q>>
StarYMOver(s, ends) ==
  IF ends = <<>> THEN <<>> ELSE AppendNew(StarYM(s, Head(ends)), StarYMOver(s, Tail(ends)))

\* \( (?: Y | (?R) )* \) at q
M1Ends(s, q) == IF CharAt(s, q) = "(" THEN ClosedBy(s, StarYP(s, q + 1), ")") ELSE <<>>

\* (?: Y | (?R) )* from q: a `[` is first taken as Y, then as the start of (?R)
StarYP(s, q) ==
  LET c == CharAt(s, q)
  IN IF c = "["
     THEN AppendNew(AppendNew(StarYP(s, q + 1), StarYPOver(s, PEnds(s, q))), <<q>>)
     ELSE IF IsY(c) THEN StarYP(s, RunEnd(s, q, {"(", ")", "["})) \o Descending(q, RunEnd(s, q, {"(", ")", "["}))
     ELSE <<q>>
StarYPOver(s, ends) ==
  IF ends = <<>> THEN <<>> ELSE AppendNew(StarYP(s, Head(ends)), StarYPOver(s, Tail(ends)))

DLead(s, q, k) ==
  AppendNew(SpaceEndsOver(s, StarYM(s, q + k)), IF k = 0 THEN <<>> ELSE DLead(s, q, k - 1))

\* a span whose last character is taken for its `)` where no `)` closes it
ParEnds_unclosed(s, p) ==
  IF CharAt(s, p) # "(" THEN <<>>
  ELSE IF ClosedBy(s, DLead(s, p + 1, SpaceRun(s, p + 1)), ")") # <<>>
  THEN ClosedBy(s, DLead(s, p + 1, SpaceRun(s, p + 1)), ")")
  ELSE <<Len(s) + 1>>

\* Regex.brackets("(", ")", is_group=True, strip_spaces=False, ignore_in_strings=False) at p
ParEnds(s, p) ==
  IF CharAt(s, p) = "(" THEN ClosedBy(s, DLead(s, p + 1, SpaceRun(s, p + 1)), ")") ELSE <<>>

\* (?: ([/\\]?) Par )? behind a bracket group that ends at b
OptEnds(s, b) ==
  AppendNew(AppendNew(IF CharAt(s, b) \in {"/", "\\"} THEN ParEnds(s, b + 1) ELSE <<>>,
                      ParEnds(s, b)), <<b>>)
OptEndsOver(s, ends) ==
  IF ends = <<>> THEN <<>> ELSE AppendNew(OptEnds(s, Head(ends)), OptEndsOver(s, Tail(ends)))

\* the whole pattern at p, as (?R) uses it
PEnds(s, p) == OptEndsOver(s, BEnds(s, p))

\* The match object of _PATTERNS.formatting at position p: group(1) is the
\* bracket content, group(2) the marker, group(3) the content of the span
\* (has3 is FALSE where group(3) is None).
NoMatch == [ok |-> FALSE]
\* the match whose bracket group ends at b and whose span, if it has one, ends at e
MatchOf(s, p, b, marker, e) ==
  [ok |-> TRUE, start |-> p, end |-> IF e = 0 THEN b ELSE e,
   group0 |-> SubSeq(s, p, (IF e = 0 THEN b ELSE e) - 1),
   group1 |-> SubSeq(s, p + 1, b - 2),
   group2 |-> marker,
   has3 |-> e # 0,
   group3 |-> IF e = 0 THEN <<>> ELSE SubSeq(s, b + Len(marker) + 1, e - 2)]
\* the first end of a list of ends, 0 for none
FirstEnd(ends) == IF ends = <<>> THEN 0 ELSE ends[1]
\* the match behind a bracket group that ends at b: a marked span, a plain span, or none
MatchSpan(s, p, b, marked, plain) ==
  IF marked # 0 THEN MatchOf(s, p, b, <<s[b]>>, marked) ELSE MatchOf(s, p, b, <<>>, plain)
MatchBrackets(s, p, b) ==
  IF b = 0 THEN NoMatch
  ELSE MatchSpan(s, p, b,
                 IF CharAt(s, b) \in {"/", "\\"} THEN FirstEnd(ParEnds(s, b + 1)) ELSE 0,
                 FirstEnd(ParEnds(s, b)))
MatchAt(s, p) == MatchBrackets(s, p, FirstEnd(BEnds(s, p)))

(***************************************************************************)
(* base/consts.py: the ANSI templates and tables                           *)
(***************************************************************************)
\* _ANSI_SEQ_1.format(n): ESC [ n m
ANSI_SEQ_1(n) == <<ESC, "[">> \o IntToStr(n) \o <<"m">>
\* ANSI.SEQ_COLOR.format(r, g, b)
SEQ_COLOR(rgb) ==
  <<ESC, "[", "3", "8", ";", "2", ";">> \o IntToStr(rgb[1]) \o <<";">> \o IntToStr(rgb[2])
    \o <<";">> \o IntToStr(rgb[3]) \o <<"m">>
\* ANSI.SEQ_BG_COLOR.format(r, g, b)
SEQ_BG_COLOR(rgb) ==
  <<ESC, "[", "4", "8", ";", "2", ";">> \o IntToStr(rgb[1]) \o <<";">> \o IntToStr(rgb[2])
    \o <<";">> \o IntToStr(rgb[3]) \o <<"m">>
\* f"{ANSI.CHAR}{ANSI.START}"
CSI == <<ESC, "[">>

COLOR_MAP ==
  <<<<"b", "l", "a", "c", "k">>, <<"r", "e", "d">>, <<"g", "r", "e", "e", "n">>, <<"y", "e", "l", "l", "o", "w">>, <<"b", "l", "u", "e">>, <<"m", "a", "g", "e", "n", "t", "a">>, <<"c", "y", "a", "n">>, <<"w", "h", "i", "t", "e">>>>
ColorNames == Range(COLOR_MAP)

\* ANSI.CODES_MAP: the aliases of an entry and its SGR parameter
CODES_MAP ==
  {[keys |-> {<<"_">>}, code |-> 0],
   [keys |-> {<<"_", "b", "o", "l", "d">>, <<"_", "b">>}, code |-> 22],
   [keys |-> {<<"_", "d", "i", "m">>, <<"_", "d">>}, code |-> 22],
   [keys |-> {<<"_", "i", "t", "a", "l", "i", "c">>, <<"_", "i">>}, code |-> 23],
   [keys |-> {<<"_", "u", "n", "d", "e", "r", "l", "i", "n", "e">>, <<"_", "u">>}, code |-> 24],
   [keys |-> {<<"_", "d", "o", "u", "b", "l", "e", "-", "u", "n", "d", "e", "r", "l", "i", "n", "e">>, <<"_", "d", "u">>}, code |-> 24],
   [keys |-> {<<"_", "i", "n", "v", "e", "r", "s", "e">>, <<"_", "i", "n", "v", "e", "r", "t">>, <<"_", "i", "n">>}, code |-> 27],
   [keys |-> {<<"_", "h", "i", "d", "d", "e", "n">>, <<"_", "h", "i", "d", "e">>, <<"_", "h">>}, code |-> 28],
   [keys |-> {<<"_", "s", "t", "r", "i", "k", "e", "t", "h", "r", "o", "u", "g", "h">>, <<"_", "s">>}, code |-> 29],
   [keys |-> {<<"_", "c", "o", "l", "o", "r">>, <<"_", "c">>}, code |-> 39],
   [keys |-> {<<"_", "b", "a", "c", "k", "g", "r", "o", "u", "n", "d">>, <<"_", "b", "g">>}, code |-> 49],
   [keys |-> {<<"b", "o", "l", "d">>, <<"b">>}, code |-> 1],
   [keys |-> {<<"d", "i", "m">>, <<"d">>}, code |-> 2],
   [keys |-> {<<"i", "t", "a", "l", "i", "c">>, <<"i">>}, code |-> 3],
   [keys |-> {<<"u", "n", "d", "e", "r", "l", "i", "n", "e">>, <<"u">>}, code |-> 4],
   [keys |-> {<<"i", "n", "v", "e", "r", "s", "e">>, <<"i", "n", "v", "e", "r", "t">>, <<"i", "n">>}, code |-> 7],
   [keys |-> {<<"h", "i", "d", "d", "e", "n">>, <<"h", "i", "d", "e">>, <<"h">>}, code |-> 8],
   [keys |-> {<<"s", "t", "r", "i", "k", "e", "t", "h", "r", "o", "u", "g", "h">>, <<"s">>}, code |-> 9],
   [keys |-> {<<"d", "o", "u", "b", "l", "e", "-", "u", "n", "d", "e", "r", "l", "i", "n", "e">>, <<"d", "u">>}, code |-> 21]}
  \cup {[keys |-> {COLOR_MAP[i]}, code |-> 29 + i] : i \in 1..8}
  \cup {[keys |-> {<<"b", "r", ":">> \o COLOR_MAP[i]}, code |-> 89 + i] : i \in 1..8}
  \cup {[keys |-> {<<"b", "g", ":">> \o COLOR_MAP[i]}, code |-> 39 + i] : i \in 1..8}
  \cup {[keys |-> {<<"b", "g", ":", "b", "r", ":">> \o COLOR_MAP[i]}, code |-> 99 + i] : i \in 1..8}

\* _PREFIX
PREFIX_BG == {<<"b", "a", "c", "k", "g", "r", "o", "u", "n", "d">>, <<"b", "g">>}
PREFIX_BR == {<<"b", "r", "i", "g", "h", "t">>, <<"b", "r">>}
\* _DEFAULT_COLOR_MODS
MODS_LIGHTEN == <<"+", "l">>
MODS_DARKEN == <<"-", "d">>

(***************************************************************************)
(* color.py: the colour arithmetic behind the default-colour modifiers.    *)
(* Python computes in IEEE doubles; the model computes the exact quotient  *)
(* and rounds it as round() does (half to even).  FloatTruncates lists     *)
(* where the double result of adjust_lightness lies below the exact one.   *)
(***************************************************************************)
Max2(a, b) == IF a >= b THEN a ELSE b
Min2(a, b) == IF a <= b THEN a ELSE b
Abs(a) == IF a >= 0 THEN a ELSE 0 - a
\* round(num / den) for num >= 0, den > 0
Round(num, den) ==
  LET q == num \div den
      r == num % den
  IN IF 2 * r < den THEN q ELSE IF 2 * r > den THEN q + 1 ELSE IF q % 2 = 0 THEN q ELSE q + 1

\* rgba._rgb_to_hsl
rgb_to_hsl(rgb) ==
  LET r == rgb[1]
      g == rgb[2]
      b == rgb[3]
      max_c == Max2(r, Max2(g, b))
      min_c == Min2(r, Min2(g, b))
      sum == max_c + min_c
      delta == max_c - min_c
      l == Round(100 * sum, 510)
      hn == IF max_c = r THEN (g - b) % (6 * delta)
            ELSE IF max_c = g THEN (b - r) + 2 * delta
            ELSE (r - g) + 4 * delta
  IN IF max_c = min_c THEN <<0, 0, l>>
     ELSE <<Round(60 * hn, delta), Round(100 * delta, 255 - Abs(sum - 255)), l>>

\* hsla._hue_to_rgb, as a numerator over 600000; p, q over 10000 and t over 360
hue_to_rgb(pn, qn, tn) ==
  LET t1 == IF tn < 0 THEN tn + 360 ELSE tn
      t == IF t1 > 360 THEN t1 - 360 ELSE t1
  IN IF t < 60 THEN 60 * pn + (qn - pn) * t
     ELSE IF t < 180 THEN 60 * qn
     ELSE IF t < 240 THEN 60 * pn + (qn - pn) * (240 - t)
     ELSE 60 * pn

\* hsla._hsl_to_rgb
hsl_to_rgb(hsl) ==
  LET h == hsl[1]
      s == hsl[2]
      l == hsl[3]
      qn == IF l < 50 THEN l * (100 + s) ELSE 100 * l + 100 * s - l * s
      pn == 200 * l - qn
  IN IF s = 0 THEN LET v == (255 * l) \div 100 IN <<v, v, v>>
     ELSE <<Round(255 * hue_to_rgb(pn, qn, h + 120), 600000),
            Round(255 * hue_to_rgb(pn, qn, h), 600000),
            Round(255 * hue_to_rgb(pn, qn, h - 120), 600000)>>

\* The float (brightness_steps / 100) * adjust, signed, kept as its factors.
LightnessChange(sign, brightness_steps, adjust) ==
  [sign |-> sign, steps |-> brightness_steps, adjust |-> adjust]
\* lightness_change > 1.0 or < -1.0 (the products that are exactly 100 give 1.0)
OutOfRange(change) == change.steps * change.adjust > 100
\* l + lightness_change * 100 falls just below its exact integer value:
\* 0.2 * 3 * 100 is 60.00000000000001 and 0.01 * 7 * 100 is 7.000000000000001
FloatTruncates(l, change) ==
  /\ change.sign = -1
  /\ \/ change.steps = 20 /\ change.adjust = 3 /\ l > 60
     \/ change.steps = 1 /\ change.adjust = 7 /\ l > 7 /\ l < 16

\* the L channel Color.adjust_lightness computes: int(max(0, min(100, l + change * 100)))
adjusted_l(l, change) ==
  LET exact == Max2(0, Min2(100, l + change.sign * change.steps * change.adjust))
  IN IF FloatTruncates(l, change) THEN exact - 1 ELSE exact

\* hsla(h, s, l).to_rgba() with the lightness the change gives
adjust_hsl(hsl, change) == hsl_to_rgb(<<hsl[1], hsl[2], adjusted_l(hsl[3], change)>>)

\* Color.adjust_lightness for an rgba colour; <<ERR>> where it raises ValueError
adjust_lightness(color, change) ==
  IF OutOfRange(change) THEN <<ERR>> ELSE adjust_hsl(rgb_to_hsl(color), change)

(***************************************************************************)
(* The key normalizer and the key resolver                                 *)
(***************************************************************************)
\* a normalizer that writes the bright prefix in front of the background prefix
normalize_key_bright_first(format_key) ==
  LET k_parts == split(lower(SelectSeq(format_key, LAMBDA c : c # " ")), ":")
      has(prefix_values) == \E i \in 1..Len(k_parts) : k_parts[i] \in prefix_values
      prefix_str == (IF has(PREFIX_BR) THEN <<"b", "r", ":">> ELSE <<>>) \o (IF has(PREFIX_BG) THEN <<"b", "g", ":">> ELSE <<>>)
  IN prefix_str \o JoinWith(<<":">>, SelectSeq(k_parts, LAMBDA part : part \notin PREFIX_BG \cup PREFIX_BR))

\* FormatCodes._normalize_key
normalize_key(format_key) ==
  LET k_parts == split(lower(SelectSeq(format_key, LAMBDA c : c # " ")), ":")
      has(prefix_values) == \E i \in 1..Len(k_parts) : k_parts[i] \in prefix_values
      prefix_str == (IF has(PREFIX_BG) THEN <<"b", "g", ":">> ELSE <<>>) \o (IF has(PREFIX_BR) THEN <<"b", "r", ":">> ELSE <<>>)
  IN prefix_str \o JoinWith(<<":">>, SelectSeq(k_parts, LAMBDA part : part \notin PREFIX_BG \cup PREFIX_BR))

\* FormatCodes._formats_to_keys
formats_to_keys(formats) ==
  LET parts == split(formats, "|")
      stripped == [i \in 1..Len(parts) |-> strip(parts[i])]
  IN SelectSeq(stripped, LAMBDA k : k # <<>>)

\* position behind \s* from p
SkipSpace(s, p) == p + SpaceRun(s, p)
\* position behind the literal `word` at p, matched ignoring case; 0 if it is not there
AfterWord(s, p, word) ==
  IF p + Len(word) - 1 <= Len(s) /\ lower(SubSeq(s, p, p + Len(word) - 1)) = word
  THEN p + Len(word) ELSE 0
\* position behind (?:background|bg) at p (case ignored); 0 if neither is there
AfterBgWord(s, p) == Max2(AfterWord(s, p, <<"b", "a", "c", "k", "g", "r", "o", "u", "n", "d">>), AfterWord(s, p, <<"b", "g">>))
\* position behind \s*: at w; 0 if w is 0 or the colon is not there
AfterColon(s, w) == IF w # 0 /\ CharAt(s, SkipSpace(s, w)) = ":" THEN SkipSpace(s, w) + 1 ELSE 0
\* position behind _PREFIX_RX["BG"] = (?:background|bg)\s*: at p (case ignored); 0 if it is not there
AfterBgPrefix(s, p) == AfterColon(s, AfterBgWord(s, p))
\* position behind an optional _PREFIX_RX["BG"] at p
AfterOptBg(s, p) == Max2(p, AfterBgPrefix(s, p))
\* position behind an optional character ch at p
AfterOptChar(s, p, ch) == IF CharAt(s, p) = ch THEN p + 1 ELSE p

RECURSIVE RunOf(_, _, _)
\* the length of the run of characters of `class` from p
RunOf(s, p, class) == IF CharAt(s, p) \in class THEN 1 + RunOf(s, p + 1, class) ELSE 0

\* position behind (?:rgb|rgba)? at p, case ignored
AfterOptRgb(s, p) == Max2(p, Max2(AfterWord(s, p, <<"r", "g", "b">>), AfterWord(s, p, <<"r", "g", "b", "a">>)))
\* ^\s*(BG)?\s*(?:rgb|rgba)?\s*\(?\s* : the position of the first channel
RgbLead(key) ==
  SkipSpace(key, AfterOptChar(key, SkipSpace(key, AfterOptRgb(key, SkipSpace(key, AfterOptBg(key, SkipSpace(key, 1))))), "("))
\* (\d{1,3}) at p
IsChannel(key, p) == RunOf(key, p, Digits) \in 1..3
Channel(key, p) == StrToInt(SubSeq(key, p, p + RunOf(key, p, Digits) - 1), 10)
\* position behind \d*\s* at p
AfterChannel(key, p) == SkipSpace(key, p + RunOf(key, p, Digits))
\* position behind \d*\s*,\s* at p, a comma taken for granted
NextChannel(key, p) == SkipSpace(key, AfterChannel(key, p) + 1)
\* the rest of _PATTERNS.rgb with the channels at p4, p5 and p6
rgb_match_at(key, p4, p5, p6) ==
  IF /\ IsChannel(key, p4) /\ CharAt(key, AfterChannel(key, p4)) = ","
     /\ IsChannel(key, p5) /\ CharAt(key, AfterChannel(key, p5)) = ","
     /\ IsChannel(key, p6)
     /\ SkipSpace(key, AfterOptChar(key, AfterChannel(key, p6), ")")) = Len(key) + 1
  THEN [ok |-> TRUE, is_bg |-> AfterBgPrefix(key, SkipSpace(key, 1)) # 0,
        r |-> Channel(key, p4), g |-> Channel(key, p5), b |-> Channel(key, p6)]
  ELSE [ok |-> FALSE]
rgb_match_from(key, p4) == rgb_match_at(key, p4, NextChannel(key, p4), NextChannel(key, NextChannel(key, p4)))
\* _PATTERNS.rgb.match(key): [ok, is_bg, r, g, b]
rgb_match(key) == rgb_match_from(key, RgbLead(key))

HexDigits == Digits \cup HexLetters \cup {"A", "B", "C", "D", "E", "F"}

\* hexa(color).to_rgba() for a string of 3 or 6 hex digits
hex_to_rgb(color) ==
  IF Len(color) = 3
  THEN <<StrToInt(<<color[1], color[1]>>, 16), StrToInt(<<color[2], color[2]>>, 16),
         StrToInt(<<color[3], color[3]>>, 16)>>
  ELSE <<StrToInt(SubSeq(color, 1, 2), 16), StrToInt(SubSeq(color, 3, 4), 16),
         StrToInt(SubSeq(color, 5, 6), 16)>>

\* position behind (?:#|0x)? at p, case ignored
AfterOptHexPrefix(s, p) ==
  IF CharAt(s, p) = "#" THEN p + 1 ELSE IF AfterWord(s, p, <<"0", "x">>) # 0 THEN p + 2 ELSE p
\* the rest of _PATTERNS.hex with the digits at p2
hex_match_from(key, p2) ==
  IF /\ RunOf(key, p2, HexDigits) \in {3, 6}
     /\ SkipSpace(key, p2 + RunOf(key, p2, HexDigits)) = Len(key) + 1
  THEN [ok |-> TRUE, is_bg |-> AfterBgPrefix(key, SkipSpace(key, 1)) # 0,
        digits |-> SubSeq(key, p2, p2 + RunOf(key, p2, HexDigits) - 1)]
  ELSE [ok |-> FALSE]
\* _PATTERNS.hex.match(key): [ok, is_bg, digits]
hex_match(key) == hex_match_from(key, AfterOptHexPrefix(key, SkipSpace(key, AfterOptBg(key, SkipSpace(key, 1)))))

\* position behind (?:BG\s*:)? at 1, case ignored
AfterOptBgColon(key) == Max2(1, AfterColon(key, AfterWord(key, 1, <<"b", "g">>)))
\* the characters the run that starts with ch may go on with: \++, l+, \-+ or d+, case ignored
ModifierRun(ch) == IF ch \in {"l", "L"} THEN {"l", "L"} ELSE IF ch \in {"d", "D"} THEN {"d", "D"} ELSE {ch}
\* the rest of _PATTERNS.modifier with the prefix ending at bg_end and the run at p1
modifier_match_from(key, bg_end, p1) ==
  IF /\ CharAt(key, p1) \in {"+", "l", "L", "-", "d", "D"}
     /\ p1 + RunOf(key, p1, ModifierRun(CharAt(key, p1))) = Len(key) + 1
  THEN [ok |-> TRUE, is_bg |-> bg_end # 1, modifiers |-> SubSeq(key, p1, Len(key))]
  ELSE [ok |-> FALSE]
\* _PATTERNS.modifier.match(key): [ok, is_bg, modifiers]
modifier_match(key) == modifier_match_from(key, AfterOptBgColon(key), SkipSpace(key, AfterOptBgColon(key)))

\* String.single_char_repeats
single_char_repeats(string, char) ==
  IF \A i \in 1..Len(string) : string[i] = char THEN Len(string) ELSE 0

\* _PATTERNS.bg_opt_default.search(key): the key contains `default`, case ignored
bg_opt_default_search(key) == Contains(lower(key), <<"d", "e", "f", "a", "u", "l", "t">>)
\* _PATTERNS.bg_default.search(key): (?:background|bg) \s* : \s* default somewhere in the key
bg_default_search(key) ==
  \E p \in 1..Len(key) :
    /\ AfterBgPrefix(key, p) # 0
    /\ AfterWord(key, SkipSpace(key, AfterBgPrefix(key, p)), <<"d", "e", "f", "a", "u", "l", "t">>) # 0

\* the modifier characters that the modifiers consist of, in the order lighten, darken
mods_hit(modifiers) ==
  SelectSeq(MODS_LIGHTEN \o MODS_DARKEN, LAMBDA mod : single_char_repeats(modifiers, mod) > 0)
\* (ANSI.SEQ_BG_COLOR if is_bg else ANSI.SEQ_COLOR).format(*new_rgb[:3])
color_seq(is_bg, new_rgb) ==
  IF new_rgb = <<ERR>> THEN <<ERR>> ELSE IF is_bg THEN SEQ_BG_COLOR(new_rgb) ELSE SEQ_COLOR(new_rgb)
\* _get_default_ansi behind the modifier loop, `hits` being the modifier characters found
modifier_hit_ansi(default_color, match, hits, brightness_steps) ==
  IF hits = <<>> THEN <<>>
  ELSE color_seq(match.is_bg,
                 adjust_lightness(default_color,
                                  LightnessChange(IF hits[1] \in Range(MODS_LIGHTEN) THEN 1 ELSE -1,
                                                  brightness_steps,
                                                  single_char_repeats(match.modifiers, hits[1]))))
\* _get_default_ansi behind the match of _PATTERNS.modifier
modifier_ansi(default_color, match, brightness_steps) ==
  IF ~match.ok THEN <<>>
  ELSE modifier_hit_ansi(default_color, match, mods_hit(match.modifiers), brightness_steps)

\* FormatCodes._get_default_ansi(default_color, format_key, brightness_steps) with a
\* format key and brightness steps given: the ANSI code, <<>> for None, <<ERR>> where
\* Color.adjust_lightness raises
get_default_ansi(default_color, format_key, brightness_steps) ==
  IF format_key # <<>> /\ bg_opt_default_search(format_key)
  THEN IF bg_default_search(format_key) THEN SEQ_BG_COLOR(default_color) ELSE SEQ_COLOR(default_color)
  ELSE modifier_ansi(default_color, modifier_match(format_key), brightness_steps)

\* the SGR parameter ANSI.CODES_MAP has for the key, -1 if the key is not in the map
codes_map_get(format_key) ==
  IF \E e \in CODES_MAP : format_key \in e.keys
  THEN (CHOOSE e \in CODES_MAP : format_key \in e.keys).code
  ELSE -1

\* a range check that looks at the red channel only
is_valid_rgba_tuple_red(r, g, b) == r \in 0..255

\* Color.is_valid_rgba((r, g, b)) for a tuple of three integers
is_valid_rgba_tuple(r, g, b) == r \in 0..255 /\ g \in 0..255 /\ b \in 0..255

\* _get_replacement behind the default-colour and the CODES_MAP lookup: the rgb and hex patterns
rgb_or_hex(format_key_arg, rgb, hex) ==
  IF rgb.ok
  THEN IF is_valid_rgba_tuple(rgb.r, rgb.g, rgb.b)
       THEN IF rgb.is_bg THEN SEQ_BG_COLOR(<<rgb.r, rgb.g, rgb.b>>) ELSE SEQ_COLOR(<<rgb.r, rgb.g, rgb.b>>)
       ELSE format_key_arg
  ELSE IF hex.ok
  THEN IF hex.is_bg THEN SEQ_BG_COLOR(hex_to_rgb(hex.digits)) ELSE SEQ_COLOR(hex_to_rgb(hex.digits))
  ELSE format_key_arg

\* _get_replacement behind the default-colour lookup, which gave new_default_color
replacement_after_default(format_key_arg, format_key, new_default_color) ==
  IF new_default_color # <<>> THEN new_default_color
  ELSE IF codes_map_get(format_key) # -1 THEN ANSI_SEQ_1(codes_map_get(format_key))
  ELSE rgb_or_hex(format_key_arg, rgb_match(format_key), hex_match(format_key))

\* a resolver that looks the key up in ANSI.CODES_MAP before the default-colour keys
replacement_of_table_first(format_key_arg, format_key, default_color, brightness_steps) ==
  IF codes_map_get(format_key) # -1 THEN ANSI_SEQ_1(codes_map_get(format_key))
  ELSE replacement_after_default(format_key_arg, format_key,
                                 IF default_color # None
                                 THEN get_default_ansi(default_color, format_key, brightness_steps)
                                 ELSE <<>>)

\* _get_replacement for the normalized key format_key
replacement_of(format_key_arg, format_key, default_color, brightness_steps) ==
  replacement_after_default(format_key_arg, format_key,
                            IF default_color # None
                            THEN get_default_ansi(default_color, format_key, brightness_steps)
                            ELSE <<>>)

\* FormatCodes._get_replacement: the ANSI code of the key, the key itself where it is
\* unresolved, <<ERR>> where the call raises
get_replacement(format_key_arg, default_color, brightness_steps) ==
  replacement_of(format_key_arg, normalize_key(format_key_arg), default_color, brightness_steps)

(***************************************************************************)
(* Color.is_valid_rgba / Color.is_valid_hexa for strings, as the reset     *)
(* planner uses them.  A full match exists iff some path through the       *)
(* pattern ends at the end of the string, so these matchers work on the    *)
(* set of positions a prefix of the pattern can reach.                     *)
(***************************************************************************)
AlNum == Digits \cup LowerLetters \cup UpperLetters
\* \s* from any of the positions ps
SpaceClosure(s, ps) == UNION {{p + k : k \in 0..SpaceRun(s, p)} : p \in ps}
\* an optional literal character
OptChar(s, ps, ch) == ps \cup {p + 1 : p \in {q \in ps : CharAt(s, q) = ch}}
AllIn(s, a, b, class) == b <= Len(s) /\ \A i \in a..b : s[i] \in class
\* (?:25[0-5]|2[0-4][0-9]|1?[0-9]{1,2}) at q
ChannelEnds(s, q) ==
  (IF /\ CharAt(s, q) = "2"
      /\ \/ CharAt(s, q + 1) = "5" /\ CharAt(s, q + 2) \in {"0", "1", "2", "3", "4", "5"}
         \/ CharAt(s, q + 1) \in {"0", "1", "2", "3", "4"} /\ CharAt(s, q + 2) \in Digits
   THEN {q + 3} ELSE {})
  \cup {q + ad[1] + ad[2] : ad \in {x \in {0, 1} \X {1, 2} :
       /\ x[1] = 1 => CharAt(s, q) = "1"
       /\ AllIn(s, q + x[1], q + x[1] + x[2] - 1, Digits)}}
\* 0* followed by a channel value, from any of the positions ps
NumberEnds(s, ps) ==
  UNION {UNION {ChannelEnds(s, p + k) : k \in 0..RunOf(s, p, {"0"})} : p \in ps}
\* (?:\s*[^0-9A-Z]\s*) with the case ignored, from any of the positions ps
SepEnds(s, ps) ==
  SpaceClosure(s, {p + 1 : p \in {q \in SpaceClosure(s, ps) : q <= Len(s) /\ s[q] \notin AlNum}})
\* [0-9]+ from any of the positions ps
DigitsPlus(s, ps) == UNION {{p + k : k \in 1..RunOf(s, p, Digits)} : p \in ps}
\* 0*(?:0?\.[0-9]+|1\.0+|[0-9]+\.[0-9]+|[0-9]+) from any of the positions ps
AlphaEnds(s, ps) ==
  LET zs == UNION {{p + k : k \in 0..RunOf(s, p, {"0"})} : p \in ps}
      dot(qs) == {q + 1 : q \in {x \in qs : CharAt(s, x) = "."}}
  IN DigitsPlus(s, dot(OptChar(s, zs, "0")))
     \cup UNION {{q + 2 + k : k \in 1..RunOf(s, q + 2, {"0"})} :
                 q \in {x \in zs : CharAt(s, x) = "1" /\ CharAt(s, x + 1) = "."}}
     \cup DigitsPlus(s, dot(DigitsPlus(s, zs)))
     \cup DigitsPlus(s, zs)

\* Color.is_valid_rgba(color) for a str: re.fullmatch(Regex.rgba_str(fix_sep=None), color)
is_valid_rgba_str(color) ==
  LET p0 == {1} \cup ({AfterWord(color, 1, <<"r", "g", "b">>), AfterWord(color, 1, <<"r", "g", "b", "a">>)} \ {0})
      p1 == SpaceClosure(color, OptChar(color, SpaceClosure(color, p0), "("))
      p2 == NumberEnds(color, SepEnds(color, NumberEnds(color, SepEnds(color, NumberEnds(color, p1)))))
      p3 == p2 \cup AlphaEnds(color, SepEnds(color, p2))
      p4 == OptChar(color, SpaceClosure(color, p3), ")")
  IN Len(color) + 1 \in p4

\* Color.is_valid_hexa for a str whose digits may come in the given numbers: the prefix is
\* cut off, then re.fullmatch(Regex.hexa_str(allow_alpha), color)
is_valid_hexa_lengths(color, lengths) ==
  LET rest == IF startswith(color, <<"#">>) THEN Drop(color, 1)
              ELSE IF startswith(color, <<"0", "x">>) THEN Drop(color, 2) ELSE color
      p == IF CharAt(rest, 1) = "#" THEN 2 ELSE IF AfterWord(rest, 1, <<"0", "x">>) # 0 THEN 3 ELSE 1
      n == RunOf(rest, p, HexDigits)
  IN n \in lengths /\ p + n = Len(rest) + 1

\* Color.is_valid_hexa(color) for a str
is_valid_hexa_str(color) == is_valid_hexa_lengths(color, {3, 4, 6, 8})

\* _ReplaceKeysHelper.is_valid_color
is_valid_color(color) ==
  color \in ColorNames \/ is_valid_rgba_str(color) \/ is_valid_hexa_str(color)

(***************************************************************************)
(* The helpers of the drivers                                              *)
(***************************************************************************)
\* a value that stands for a raised exception
Raised(x) == ERR \in Range(x)

FirstIndex(s, p, ch) ==
  IF \E i \in p..Len(s) : s[i] = ch THEN CHOOSE i \in p..Len(s) : s[i] = ch /\ \A j \in p..(i - 1) : s[j] # ch
  ELSE 0

RECURSIVE star_reset_from(_, _, _)
\* _PATTERNS.star_reset.sub(r"[\1_\2]" or r"[\1_|default\2]", string) from position p on:
\* \[ \s* ([^]_]*?) \s* \* \s* ([^]_]*?) \]
star_reset_from(string, p, use_default) ==
  IF p > Len(string) THEN <<>>
  ELSE LET close == IF string[p] = "[" THEN FirstIndex(string, p + 1, "]") ELSE 0
           star == IF close = 0 THEN 0 ELSE FirstIndex(string, p + 1, "*")
       IN IF /\ close # 0 /\ star # 0 /\ star < close
             /\ \A i \in (p + 1)..(close - 1) : string[i] # "_"
          THEN LET g1 == RStrip(LStrip(SubSeq(string, p + 1, star - 1)))
                   g2 == LStrip(SubSeq(string, star + 1, close - 1))
               IN <<"[">> \o g1 \o (IF use_default THEN <<"_", "|", "d", "e", "f", "a", "u", "l", "t">> ELSE <<"_">>) \o g2 \o <<"]">>
                    \o star_reset_from(string, close + 1, use_default)
          ELSE <<string[p]>> \o star_reset_from(string, p + 1, use_default)
star_reset_sub(string, use_default) == star_reset_from(string, 1, use_default)

RECURSIVE star_reset_inside_from(_, _, _)
\* _PATTERNS.star_reset_inside.sub(r"\1_\2" or r"\1_|default\2", formats) from position p on:
\* ([^|]*?) \s* \* \s* ([^|]*)
star_reset_inside_from(formats, p, use_default) ==
  IF p > Len(formats) THEN <<>>
  ELSE LET pipe == FirstIndex(formats, p, "|")
           seg_end == IF pipe = 0 THEN Len(formats) ELSE pipe - 1
           star == FirstIndex(formats, p, "*")
       IN IF star # 0 /\ star <= seg_end
          THEN RStrip(SubSeq(formats, p, star - 1)) \o (IF use_default THEN <<"_", "|", "d", "e", "f", "a", "u", "l", "t">> ELSE <<"_">>)
                 \o LStrip(SubSeq(formats, star + 1, seg_end))
                 \o star_reset_inside_from(formats, seg_end + 1, use_default)
          ELSE SubSeq(formats, p, Min2(seg_end + 1, Len(formats)))
                 \o star_reset_inside_from(formats, seg_end + 2, use_default)
star_reset_inside_sub(formats, use_default) == star_reset_inside_from(formats, 1, use_default)

\* bool(_PATTERNS.escape_char_cond.match(group0)): (\s*\[\s*)(\/|\\)(?!\2+)
escape_char_cond_match(group0) ==
  LET a == SkipSpace(group0, 1)
      q == SkipSpace(group0, a + 1)
  IN /\ CharAt(group0, a) = "["
     /\ CharAt(group0, q) \in {"/", "\\"}
     /\ CharAt(group0, q + 1) # CharAt(group0, q)

\* _PATTERNS.escape_char.sub(r"\1", formats): (\s*)(\/|\\) loses its slash
escape_char_sub(formats) == SelectSeq(formats, LAMBDA c : c \notin {"/", "\\"})

\* every format key reset by the total reset
reset_keys_of_total(k, use_default) == <<<<"_">>>>

\* the reset keys _ReplaceKeysHelper.gen_reset_codes collects for one format key
reset_keys_of(k, use_default) ==
  LET default_color_resets == IF use_default THEN <<<<"_", "b", "g">>, <<"d", "e", "f", "a", "u", "l", "t">>>> ELSE <<<<"_", "b", "g">>, <<"_", "c">>>>
      k_lower == lower(k)
      k_set == Range(split(k_lower, ":"))
      some_suffix_is_color == \E i \in 0..(Len(k) - 1) : is_valid_color(Drop(k, i))
  IN IF PREFIX_BG \cap k_set # {} /\ Cardinality(k_set) <= 3
     THEN IF k_set \cap PREFIX_BR # {}
          THEN IF some_suffix_is_color THEN default_color_resets ELSE <<>>
          ELSE IF some_suffix_is_color THEN <<<<"_", "b", "g">>>> ELSE <<>>
     ELSE IF \/ is_valid_color(k)
             \/ \E prefix \in PREFIX_BR :
                  /\ startswith(k_lower, prefix \o <<":">>)
                  /\ is_valid_color(Drop(k, Len(prefix) + 1))
     THEN <<default_color_resets[2]>>
     ELSE <<<<"_">> \o k>>

RECURSIVE reset_keys_from(_, _)
reset_keys_from(format_keys, use_default) ==
  IF format_keys = <<>> THEN <<>>
  ELSE reset_keys_of(Head(format_keys), use_default) \o reset_keys_from(Tail(format_keys), use_default)

\* the replacements of the keys taken from the last key to the first
replacements_reversed(keys, default_color, brightness_steps) ==
  [i \in 1..Len(keys) |-> get_replacement(keys[Len(keys) + 1 - i], default_color, brightness_steps)]

\* [_get_replacement(k, default_color, brightness_steps) for k in keys]
replacements(keys, default_color, brightness_steps) ==
  [i \in 1..Len(keys) |-> get_replacement(keys[i], default_color, brightness_steps)]

\* the replacements of the reset keys that are ANSI codes; <<<<ERR>>>> where a lookup raised
reset_codes(rs) ==
  IF \E i \in 1..Len(rs) : Raised(rs[i]) THEN <<<<ERR>>>>
  ELSE SelectSeq(rs, LAMBDA r : startswith(r, CSI))

\* _ReplaceKeysHelper.gen_reset_codes: sets self.ansi_resets
gen_reset_codes(self) ==
  [self EXCEPT !.ansi_resets = reset_codes(replacements(reset_keys_from(self.format_keys, self.use_default),
                                                        self.default_color, self.brightness_steps))]

\* r if (r := _get_replacement(k, ...)) != k else f"[{k}]", for the replacements rs of the keys
ansi_formats_of(format_keys, rs) ==
  [i \in 1..Len(format_keys) |->
     IF rs[i] # format_keys[i] THEN rs[i] ELSE <<"[">> \o format_keys[i] \o <<"]">>]

\* the instance variables of a _ReplaceKeysHelper as __call__ sets them for a match
helper_for(match, default_color, brightness_steps) ==
  [use_default |-> default_color # None,
   default_color |-> default_color,
   brightness_steps |-> brightness_steps,
   group0 |-> match.group0,
   formats |-> IF escape_char_cond_match(match.group0) THEN escape_char_sub(match.group1) ELSE match.group1,
   original_formats |-> IF escape_char_cond_match(match.group0) THEN escape_char_sub(match.group1) ELSE match.group1,
   formats_escaped |-> escape_char_cond_match(match.group0),
   auto_reset_escaped |-> match.group2 # <<>>,
   auto_reset_txt |-> match.group3,
   format_keys |-> <<>>,
   ansi_formats |-> <<>>,
   ansi_resets |-> <<>>]

\* the text holds nested formatting: it is not empty and has both brackets
has_nested(txt) == txt # <<>> /\ "[" \in Range(txt) /\ "]" \in Range(txt)

\* has_single_valid_ansi of _ReplaceKeysHelper.build_output
has_single_valid_ansi(ansi_formats) == Len(ansi_formats) = 1 /\ Contains(ansi_formats[1], CSI)
\* a directive counted as valid as soon as one of its keys resolves
all_formats_valid_some(ansi_formats) == \E i \in 1..Len(ansi_formats) : startswith(ansi_formats[i], CSI)

\* all(x.startswith(f"{ANSI.CHAR}{ANSI.START}") for x in self.ansi_formats)
all_formats_valid(ansi_formats) == \A i \in 1..Len(ansi_formats) : startswith(ansi_formats[i], CSI)

\* "(" + to_ansi(self.auto_reset_txt, ...) + ")" behind the ANSI codes of the keys
escaped_span_output(self, compiled_txt) ==
  IF Raised(compiled_txt) THEN <<ERR>>
  ELSE Concat(self.ansi_formats) \o <<"(">> \o compiled_txt \o <<")">>

RECURSIVE to_ansi_lines(_, _, _), replace_keys(_, _, _), formatting_sub(_, _, _, _)
RECURSIVE process_formats_and_auto_reset(_), build_output(_), helper_output(_), formatting_sub_at(_, _, _, _, _)

\* _ReplaceKeysHelper.build_output: the replacement text, <<ERR>> where it raises
build_output(self) ==
  IF ~has_single_valid_ansi(self.ansi_formats) /\ ~all_formats_valid(self.ansi_formats) THEN self.group0
  ELSE IF self.formats_escaped
  THEN IF self.auto_reset_txt # <<>>
       THEN <<"[">> \o self.original_formats \o <<"]", "(">> \o self.auto_reset_txt \o <<")">>
       ELSE <<"[">> \o self.original_formats \o <<"]">>
  ELSE IF self.auto_reset_escaped /\ self.auto_reset_txt # <<>>
  THEN escaped_span_output(self, to_ansi_lines(self.auto_reset_txt, self.default_color, self.brightness_steps))
  ELSE Concat(self.ansi_formats) \o self.auto_reset_txt
         \o (IF self.auto_reset_escaped THEN <<>> ELSE Concat(self.ansi_resets))

\* _ReplaceKeysHelper.process_formats_and_auto_reset: compiles nested formatting in
\* self.auto_reset_txt and in self.formats
process_formats_and_auto_reset(self) ==
  [self EXCEPT
     !.auto_reset_txt = IF has_nested(@) THEN to_ansi_lines(@, self.default_color, self.brightness_steps) ELSE @,
     !.formats = IF has_nested(@) THEN to_ansi_lines(@, self.default_color, self.brightness_steps) ELSE @]

\* convert_to_ansi: self.format_keys
set_format_keys(self) == [self EXCEPT !.format_keys = formats_to_keys(self.formats)]
\* convert_to_ansi: self.ansi_formats; a lookup that raises leaves <<ERR>> in the list
set_ansi_formats(self) ==
  [self EXCEPT !.ansi_formats =
     ansi_formats_of(self.format_keys,
                     replacements(self.format_keys, self.default_color, self.brightness_steps))]
\* convert_to_ansi: self.ansi_resets
set_ansi_resets(self) ==
  IF ~Raised(Concat(self.ansi_formats)) /\ self.auto_reset_txt # <<>> /\ ~self.auto_reset_escaped
  THEN gen_reset_codes(self)
  ELSE [self EXCEPT !.ansi_resets = <<>>]
\* _ReplaceKeysHelper.convert_to_ansi
convert_to_ansi(self) == set_ansi_resets(set_ansi_formats(set_format_keys(self)))

\* build_output behind convert_to_ansi, which may have raised
converted_output(self) ==
  IF Raised(Concat(self.ansi_formats)) \/ self.ansi_resets = <<<<ERR>>>> THEN <<ERR>>
  ELSE build_output(self)

\* _ReplaceKeysHelper.__call__ behind process_formats_and_auto_reset
helper_output(self) ==
  IF Raised(self.auto_reset_txt) \/ Raised(self.formats) THEN <<ERR>>
  ELSE IF self.formats = <<>> THEN self.group0
  ELSE converted_output(convert_to_ansi(self))

\* _ReplaceKeysHelper.__call__ for one match: the replacement text, <<ERR>> where it raises
replace_keys(match, default_color, brightness_steps) ==
  helper_output(process_formats_and_auto_reset(helper_for(match, default_color, brightness_steps)))

\* the replacement of a match and the substituted rest of the line
sub_joined(out, rest) == IF Raised(out) \/ Raised(rest) THEN <<ERR>> ELSE out \o rest

\* the substitution from position p on, `match` being the match of the pattern at p
formatting_sub_at(line, p, match, default_color, brightness_steps) ==
  IF ~match.ok
  THEN sub_joined(<<line[p]>>, formatting_sub(line, p + 1, default_color, brightness_steps))
  ELSE sub_joined(replace_keys(match, default_color, brightness_steps),
                  formatting_sub(line, match.end, default_color, brightness_steps))

\* _PATTERNS.formatting.sub(_ReplaceKeysHelper(...), line) from position p on: a match
\* starts with `[`, so the text in front of the next `[` is copied as it is
formatting_sub(line, p, default_color, brightness_steps) ==
  IF FirstIndex(line, p, "[") = 0 THEN SubSeq(line, p, Len(line))
  ELSE sub_joined(SubSeq(line, p, FirstIndex(line, p, "[") - 1),
                  formatting_sub_at(line, FirstIndex(line, p, "["), MatchAt(line, FirstIndex(line, p, "[")), default_color, brightness_steps))

\* "\n".join(...) of the substituted lines, <<ERR>> where one of them raised
join_lines(outs) ==
  IF \E i \in 1..Len(outs) : Raised(outs[i]) THEN <<ERR>> ELSE JoinWith(<<"\n">>, outs)

\* every line through the tokenizer
sub_lines(lines, default_color, brightness_steps) ==
  [i \in 1..Len(lines) |-> formatting_sub(lines[i], 1, default_color, brightness_steps)]

\* FormatCodes.to_ansi behind its argument checks, without the default-colour start:
\* the star substitution, then every line through the tokenizer
to_ansi_lines(string, default_color, brightness_steps) ==
  join_lines(sub_lines(split(star_reset_sub(string, default_color # None), "\n"),
                       default_color, brightness_steps))

\* a default colour is None, a tuple of three integers or a text of another length
is_tuple_color(color) == Len(color) = 3

\* the values of default_color that are None or a valid colour without alpha:
\* Color.is_valid_rgba(color, allow_alpha=False) for a tuple of three integers and
\* Color.is_valid_hexa(color, allow_alpha=False) for a text
valid_default_color(default_color) ==
  \/ default_color = None
  \/ IF is_tuple_color(default_color)
     THEN is_valid_rgba_tuple(default_color[1], default_color[2], default_color[3])
     ELSE is_valid_hexa_lengths(default_color, {3, 6})

\* FormatCodes._validate_default_color, by what it raises.  None is returned as no default
\* colour.  For every other value the first check is Color.is_valid_hexa(default_color, False):
\* it hands over two positional arguments where is_valid_hexa(cls, color, /, *, allow_alpha,
\* get_prefix) takes one, so the call raises TypeError before the colour is looked at
validate_default_color(default_color) ==
  IF default_color = None THEN "none" ELSE "TypeError(is_valid_hexa)"

\* what to_ansi returns or raises once the lines are substituted
to_ansi_result(default_color, out) ==
  IF Raised(out) THEN [raised |-> ERR, value |-> <<>>]
  ELSE [raised |-> "none",
        value |-> IF default_color # None THEN SEQ_COLOR(default_color) \o out ELSE out]

\* a to_ansi whose guard lets every brightness_steps below 1 through
to_ansi_steps_unchecked(string, default_color, brightness_steps) ==
  IF brightness_steps > 100
  THEN [raised |-> "ValueError(brightness_steps)", value |-> <<>>]
  ELSE IF validate_default_color(default_color) # "none"
  THEN [raised |-> validate_default_color(default_color), value |-> <<>>]
  ELSE to_ansi_result(default_color, to_ansi_lines(string, default_color, brightness_steps))

\* FormatCodes.to_ansi(string, default_color, brightness_steps): what the call raises, and
\* the string it returns
to_ansi(string, default_color, brightness_steps) ==
  IF ~(0 < brightness_steps /\ brightness_steps <= 100)
  THEN [raised |-> "ValueError(brightness_steps)", value |-> <<>>]
  ELSE IF validate_default_color(default_color) # "none"
  THEN [raised |-> validate_default_color(default_color), value |-> <<>>]
  ELSE to_ansi_result(default_color, to_ansi_lines(string, default_color, brightness_steps))

(***************************************************************************)
(* FormatCodes.escape and _EscapeFormatCodeHelper                          *)
(***************************************************************************)
\* the default brightness_steps of FormatCodes._get_replacement
DEFAULT_BRIGHTNESS_STEPS == 20

RECURSIVE all_keys_resolve(_, _), all_keys_resolve_from(_, _, _)
\* all(...) from a key on, r being the replacement of that key
all_keys_resolve_from(keys, r, default_color) ==
  IF Raised(r) THEN "raise"
  ELSE IF r = Head(keys) THEN "no"
  ELSE all_keys_resolve(Tail(keys), default_color)

\* all(_get_replacement(k, default_color) != k for k in keys), which stops at the first
\* unresolved key: "yes", "no", or "raise" where a lookup raises before the outcome is known
all_keys_resolve(keys, default_color) ==
  IF keys = <<>> THEN "yes"
  ELSE all_keys_resolve_from(keys, get_replacement(Head(keys), default_color, DEFAULT_BRIGHTNESS_STEPS),
                             default_color)

\* f"({escaped_auto_reset})" where the match has auto-reset text
escaped_span(auto_reset_txt, escaped_auto_reset) ==
  IF auto_reset_txt # <<>> THEN <<"(">> \o escaped_auto_reset \o <<")">> ELSE <<>>

\* the result of _EscapeFormatCodeHelper.__call__ for a directive that is not escaped yet:
\* `valid` is the outcome of all(...), `escaped_auto_reset` the escaped auto-reset text
escaped_code(match, valid, escape_char, escaped_auto_reset) ==
  IF valid = "raise" THEN <<ERR>>
  ELSE IF match.group3 # <<>> /\ Raised(escaped_auto_reset) THEN <<ERR>>
  ELSE IF valid = "yes"
  THEN <<"[", escape_char>> \o match.group1 \o <<"]">> \o escaped_span(match.group3, escaped_auto_reset)
  ELSE <<"[">> \o match.group1 \o <<"]">> \o escaped_span(match.group3, escaped_auto_reset)

RECURSIVE escape_lines(_, _, _), escape_format_code(_, _, _), escape_sub(_, _, _, _), escape_sub_at(_, _, _, _, _)

\* _EscapeFormatCodeHelper.__call__ for one match
escape_format_code(match, default_color, escape_char) ==
  IF match.group1 = <<>> \/ escape_char_cond_match(match.group0) THEN match.group0
  ELSE escaped_code(match,
                    all_keys_resolve(formats_to_keys(star_reset_inside_sub(match.group1, default_color # None)),
                                     default_color),
                    escape_char,
                    escape_lines(match.group3, default_color, escape_char))

\* the substitution from position p on, `match` being the match of the pattern at p
escape_sub_at(line, p, match, default_color, escape_char) ==
  IF ~match.ok
  THEN sub_joined(<<line[p]>>, escape_sub(line, p + 1, default_color, escape_char))
  ELSE sub_joined(escape_format_code(match, default_color, escape_char),
                  escape_sub(line, match.end, default_color, escape_char))

\* _PATTERNS.formatting.sub(_EscapeFormatCodeHelper(...), line) from position p on
escape_sub(line, p, default_color, escape_char) ==
  IF p > Len(line) THEN <<>>
  ELSE escape_sub_at(line, p, MatchAt(line, p), default_color, escape_char)

\* every line through the escaping substitution
escape_each(lines, default_color, escape_char) ==
  [i \in 1..Len(lines) |-> escape_sub(lines[i], 1, default_color, escape_char)]

\* FormatCodes.escape behind its argument check
escape_lines(string, default_color, escape_char) ==
  join_lines(escape_each(split(string, "\n"), default_color, escape_char))

\* what escape returns or raises once the lines are substituted
escape_result(out) ==
  IF Raised(out) THEN [raised |-> ERR, value |-> <<>>] ELSE [raised |-> "none", value |-> out]

\* FormatCodes.escape(string, default_color, _escape_char)
escape(string, default_color, escape_char) ==
  IF validate_default_color(default_color) # "none"
  THEN [raised |-> validate_default_color(default_color), value |-> <<>>]
  ELSE escape_result(escape_lines(string, default_color, escape_char))

(***************************************************************************)
(* FormatCodes.remove_ansi, _RemAnsiSeqHelper and FormatCodes.remove       *)
(***************************************************************************)
\* [@-Z\\-_]
AnsiSingle == UpperLetters \cup {"@", "\\", "]", "^", "_"}
\* [0-?]
AnsiParams == Digits \cup {":", ";", "<", "=", ">", "?"}
\* [ -/]
AnsiIntermediates == {" ", "!", "\"", "#", "$", "%", "&", "'", "(", ")", "*", "+", ",", "-", ".", "/"}
\* [@-~], less the grave accent (0x60), which cannot be written as a string here
AnsiFinals == AnsiSingle \cup LowerLetters \cup {"[", "{", "|", "}", "~"}

\* the end of a CSI sequence whose final byte is due at b, 0 if there is none
csi_end(s, b) == IF CharAt(s, b) \in AnsiFinals THEN b + 1 ELSE 0
\* the end of a CSI sequence whose intermediate bytes start at a
csi_intermediates_end(s, a) == csi_end(s, a + RunOf(s, a, AnsiIntermediates))

\* the end of the match of _PATTERNS.ansi_seq at p, 0 if there is none:
\* ESC (?: [@-Z\\-_] | \[ [0-?]* [ -/]* [@-~] )
ansi_seq_end(s, p) ==
  IF CharAt(s, p) # ESC THEN 0
  ELSE IF CharAt(s, p + 1) \in AnsiSingle THEN p + 2
  ELSE IF CharAt(s, p + 1) = "[" THEN csi_intermediates_end(s, p + 2 + RunOf(s, p + 2, AnsiParams))
  ELSE 0

RECURSIVE SumLen(_)
\* sum(len(removed) for _, removed in self.removals)
SumLen(removals) ==
  IF removals = <<>> THEN 0 ELSE Len(removals[1][2]) + SumLen(Tail(removals))

\* a position that ignores the sequences removed before the match
removal_pos_raw(removals, start) == start

\* the position _RemAnsiSeqHelper.__call__ computes for a match starting at `start`
\* (0-based): match.start() less the lengths of the sequences removed so far
removal_pos(removals, start) == start - SumLen(removals)

\* the tuple _RemAnsiSeqHelper.__call__ appends, start_pos being the computed position
removal_at(removals, start_pos, group) ==
  IF removals # <<>> /\ removals[Len(removals)][1] = start_pos
  THEN <<removals[Len(removals)][1], group>>
  ELSE <<start_pos, group>>

\* _RemAnsiSeqHelper.__call__: the removals after the match [start, start + len(group)) is replaced
RemAnsiSeqHelper(removals, start, group) ==
  Append(removals, removal_at(removals, removal_pos(removals, start), group))

\* a kept character in front of the substituted rest
kept_char(c, r) == [clean |-> <<c>> \o r.clean, removals |-> r.removals]

RECURSIVE ansi_seq_sub(_, _, _), ansi_seq_sub_at(_, _, _, _)
\* the substitution from position p on, e being the end of the match at p or 0
ansi_seq_sub_at(s, p, e, removals) ==
  IF e = 0 THEN kept_char(s[p], ansi_seq_sub(s, p + 1, removals))
  ELSE ansi_seq_sub(s, e, RemAnsiSeqHelper(removals, p - 1, SubSeq(s, p, e - 1)))

\* _PATTERNS.ansi_seq.sub(_RemAnsiSeqHelper(removals), s) from position p on
ansi_seq_sub(s, p, removals) ==
  IF p > Len(s) THEN [clean |-> <<>>, removals |-> removals]
  ELSE ansi_seq_sub_at(s, p, ansi_seq_end(s, p), removals)

RECURSIVE ansi_seq_sub_empty(_, _), ansi_seq_sub_empty_at(_, _, _)
\* the substitution from position p on, e being the end of the match at p or 0
ansi_seq_sub_empty_at(s, p, e) ==
  IF e = 0 THEN <<s[p]>> \o ansi_seq_sub_empty(s, p + 1) ELSE ansi_seq_sub_empty(s, e)

\* _PATTERNS.ansi_seq.sub("", s) from position p on
ansi_seq_sub_empty(s, p) ==
  IF p > Len(s) THEN <<>> ELSE ansi_seq_sub_empty_at(s, p, ansi_seq_end(s, p))

\* str.replace("\n", "")
without_linebreaks(s) == SelectSeq(s, LAMBDA c : c # "\n")

\* the tuple remove_ansi returns when it tracks removals, r being the tracked substitution
tracked_result(ansi_string, ignore_linebreaks, r) ==
  [clean |-> IF ignore_linebreaks THEN ansi_seq_sub_empty(ansi_string, 1) ELSE r.clean,
   removals |-> r.removals]

\* FormatCodes.remove_ansi(ansi_string, get_removals, _ignore_linebreaks); removals is <<>>
\* where the code returns the clean string alone
remove_ansi(ansi_string, get_removals, ignore_linebreaks) ==
  IF get_removals
  THEN tracked_result(ansi_string, ignore_linebreaks,
                      ansi_seq_sub(IF ignore_linebreaks THEN without_linebreaks(ansi_string) ELSE ansi_string,
                                   1, <<>>))
  ELSE [clean |-> ansi_seq_sub_empty(ansi_string, 1), removals |-> <<>>]

\* remove_ansi applied to what to_ansi returned, or what to_ansi raised
remove_compiled(compiled, get_removals) ==
  IF compiled.raised # "none" THEN [raised |-> compiled.raised, clean |-> <<>>, removals |-> <<>>]
  ELSE [raised |-> "none"] @@ remove_ansi(compiled.value, get_removals, FALSE)

\* FormatCodes.remove(string, default_color, get_removals)
remove(string, default_color, get_removals) ==
  remove_compiled(to_ansi(string, default_color, DEFAULT_BRIGHTNESS_STEPS), get_removals)

(***************************************************************************)
(* Bounds and the texts, colours and step values the operations are        *)
(* called with                                                             *)
(***************************************************************************)
\* longest text of the exhaustive short texts
MaxLen == 3
\* most keys in one directive of the directive family
MaxKeys == 2
\* most parenthesised tails after the directive of the directive family
MaxTails == 2
\* most style keys in one directive of the style-span family
MaxStyles == 2
\* longest run of a lighten or darken modifier
MaxRun == 7
\* longest text of the exhaustive texts with escape sequences
MaxAnsiLen == 5

\* all sequences over S of length lo..hi
SeqsOf(S, lo, hi) == UNION {[1..n -> S] : n \in lo..hi}

Alphabet == {"[", "]", "(", ")", "|", "*", " ", "b"}
ShortTexts == SeqsOf(Alphabet, 0, MaxLen)

KeyNames == {<<"b">>, <<"r", "e", "d">>, <<"q">>, <<"*">>, <<"l">>, <<>>}
TailTexts == {<<"(", ")">>, <<"(", "x", ")">>, <<"/", "(", "x", ")">>, <<"(", "[", "u", "]", ")">>}
\* `[k1|...|kn]` followed by its tails
Directive(keys, tails) == <<"[">> \o JoinWith(<<"|">>, keys) \o <<"]">> \o Concat(tails)
DirectiveTexts ==
  {Directive(keys, tails) : keys \in SeqsOf(KeyNames, 1, MaxKeys), tails \in SeqsOf(TailTexts, 0, MaxTails)}

\* a directive without a span between literal text and other directives
Before == {<<>>, <<"a", " ">>, <<")">>}
After == {<<>>, <<"x">>, <<" ", "c", "(">>, <<"x", "[", "b", "]">>, <<"[", "u", "]", " ", "y">>}
PlainTexts ==
  {pre \o Directive(keys, <<>>) \o post : pre \in Before, keys \in SeqsOf(KeyNames, 1, MaxKeys), post \in After}

StyleNames == {<<"b", "o", "l", "d">>, <<"b">>, <<"d", "i", "m">>, <<"i", "t", "a", "l", "i", "c">>, <<"i">>, <<"u", "n", "d", "e", "r", "l", "i", "n", "e">>, <<"u">>, <<"i", "n", "v", "e", "r", "s", "e">>, <<"i", "n", "v", "e", "r", "t">>, <<"i", "n">>,
               <<"h", "i", "d", "d", "e", "n">>, <<"h", "i", "d", "e">>, <<"h">>, <<"s", "t", "r", "i", "k", "e", "t", "h", "r", "o", "u", "g", "h">>, <<"s">>, <<"d", "o", "u", "b", "l", "e", "-", "u", "n", "d", "e", "r", "l", "i", "n", "e">>, <<"d", "u">>}
\* a colour directive, text, a style directive with an auto-reset span, text
StyleSpan(keys) == <<"[", "c", "y", "a", "n", "]", "a", " ">> \o Directive(keys, <<<<"(", "b", ")">>>>) \o <<" ", "c">>
StyleSpanTexts == {StyleSpan(keys) : keys \in SeqsOf(StyleNames, 1, MaxStyles)}

ExampleTexts == {<<"[", "b", "|", "r", "e", "d", "]", "E", "r", "r", "o", "r", ":", "[", "_", "]", " ", "m", "s", "g">>, <<"[", "c", "y", "a", "n", "]", "a", " ", "[", "u", "]", "(", "b", ")", " ", "c">>, <<"[", "b", "o", "l", "d", "|", "t", "o", "t", "a", "l", "l", "y", "I", "n", "v", "a", "l", "i", "d", "]", "x">>, <<"[", "n", "o", "t", "A", "K", "e", "y", "]", "x">>,
                 <<"a", "b", "[", "r", "e", "d", "]", "c", "d", "[", "_", "]", "e", "f">>, <<"[", "l", "l", "l", "l", "l", "l", "]", "x">>, <<"[", "[", "b", "]", "]">>, <<"[", "/", "b", "]", "(", "[", "u", "]", ")">>, <<"[", "q", "]", "(", ")", "(", ")">>, <<"[", "*", "q", "]", "x">>, <<"x", "\n", "[", "b", "]", "y">>}

\* directives that are escaped already, with either escape character
EscapedTexts == {<<"[", "/", "b", "]">>, <<"[", "\\", "b", "]">>, <<"[", "/", "/", "b", "]">>, <<"[", "/", "b", "|", "r", "e", "d", "]", "(", "x", ")">>, <<"[", "/", "q", "]">>, <<"[", "b", "]", "/", "(", "x", ")">>, <<"a", "[", "/", "b", "]", "(", "x", "[", "u", "]", ")">>}

Gray == <<128, 128, 128>>
\* the values default_color is given: None, tuples of three integers and texts
DefaultColors ==
  {None, Gray, <<255, 0, 0>>, <<256, 0, 0>>, <<255, 0, 136>>, <<"#", "A", "B", "C">>, <<"#", "B", "C", "A">>,
   <<"#", "A", "B", "C", "D">>, <<"n", "o", "p", "e">>}
BrightnessSteps == {-1, 0, 1, 20, 50, 100, 101}

\* the characters of the exhaustive texts with escape sequences
AnsiAlphabet == {ESC, "[", "m", "M", "a"}
AnsiExamples == {<<"a", "b">> \o <<ESC>> \o <<"[", "3", "1", "m">> \o <<"c", "d">> \o <<ESC>> \o <<"[", "0", "m">> \o <<"e", "f">>,
                 <<ESC>> \o <<"[", "1", "m">> \o <<ESC>> \o <<"[", "3", "1", "m">> \o <<"E", "r", "r", "o", "r", ":">> \o <<ESC>> \o <<"[", "0", "m">> \o <<" ", "m", "s", "g">>,
                 <<"a", "\n">> \o <<ESC>> \o <<"[", "3", "8", ";", "2", ";", "1", ";", "2", ";", "3", "m">> \o <<"b", "\n">> \o <<ESC>> \o <<"M">>,
                 <<ESC, ESC>> \o <<"[", "1", "m">> \o <<"[", "1", "m">>}
AnsiTexts == SeqsOf(AnsiAlphabet, 0, MaxAnsiLen) \cup AnsiExamples

\* the default colours and the modifier keys of run length 1 the modifiers are tried with
ModifierColors == {Gray, <<255, 0, 0>>, <<0, 0, 64>>, <<10, 200, 30>>, <<0, 0, 0>>, <<255, 255, 255>>, <<30, 30, 30>>}
ModifierTexts == {<<"[", "l", "]">>, <<"[", "+", "]">>, <<"[", "d", "]">>, <<"[", "-", "]">>, <<"[", "b", "g", ":", "l", "]">>, <<"[", "b", "g", ":", "-", "]">>}
ModifierSteps == {1, 20, 50, 100}

NotCalled == [raised |-> "not called", value |-> <<>>]
NotStripped == [raised |-> "not called", clean |-> <<>>, removals |-> <<>>]

\* most threads that call into the library at the same time
MaxThreads == 2
Threads == 1..MaxThreads

\* the sources LazyRegex is constructed with: LazyRegex(email=..., phone=...)
PatternSources == [email |-> "[A-Z0-9._%+-]+@[A-Z0-9.-]+", phone |-> "[0-9]{1,4}"]
\* the attribute names a thread reads: the declared names and one that is not declared
AttributeNames == DOMAIN PatternSources \cup {"zip"}
\* no attribute of a name is set on the instance
NoPattern == [pattern |-> "", compiled_by |-> 0]
\* a thread that reads no attribute
NoAccess == [at |-> "idle", name |-> "", compiled |-> NoPattern, returned |-> NoPattern, raised |-> "none"]

\* the call of one of to_ansi, escape, remove and remove_ansi: its arguments and results
VARIABLES pc, string, default_color, brightness_steps, escape_char, ansi, previous, escaped, escaped_again, stripped, tracked
\* the match object of a search with _PATTERNS.formatting
VARIABLES token
\* the console: the module global _CONSOLE_ANSI_CONFIGURED, how often stdout was flushed and
\* the console mode was set by _config_console, os.name, and where each thread is in
\* FormatCodes.print or FormatCodes.input
VARIABLES CONSOLE_ANSI_CONFIGURED, flushes, mode_sets, os_name, console_pc
\* a LazyRegex instance: self._patterns, the attributes set on the instance, and each
\* thread's read of an attribute
VARIABLES patterns, cache, access
\* the results of FormatCodes.to_ansi called on each line of the text on its own
VARIABLES line_ansi
\* the parts Console._add_back_removed_parts was called with and what it returned or raised
VARIABLES split_string, restored

call_vars == <<pc, string, default_color, brightness_steps, escape_char, ansi, previous, escaped, escaped_again, stripped, tracked, token>>
console_vars == <<CONSOLE_ANSI_CONFIGURED, flushes, mode_sets, os_name, console_pc>>
regex_vars == <<patterns, cache, access>>
result_vars == <<line_ansi, split_string, restored>>
vars == <<call_vars, console_vars, regex_vars, result_vars>>

\* no thread has called FormatCodes.print or FormatCodes.input
ConsoleUntouched ==
  /\ CONSOLE_ANSI_CONFIGURED = FALSE /\ flushes = 0 /\ mode_sets = 0
  /\ console_pc = [t \in Threads |-> [in |-> "", at |-> "idle"]]
\* no thread has read an attribute of the LazyRegex instance
RegexUntouched ==
  patterns = PatternSources /\ cache = [n \in DOMAIN PatternSources |-> NoPattern] /\ access = [t \in Threads |-> NoAccess]

\* no call has been made on the lines of the text
NoFollowUps == line_ansi = <<>> /\ split_string = <<>> /\ restored = NotCalled

\* nothing has been called yet
NoResults ==
  /\ ansi = NotCalled /\ previous = NotCalled /\ escaped = NotCalled /\ escaped_again = NotCalled
  /\ stripped = NotStripped /\ tracked = NotStripped /\ token = NoMatch
  /\ ConsoleUntouched /\ os_name = "posix" /\ RegexUntouched /\ NoFollowUps

(***************************************************************************)
(* Compiling: FormatCodes.to_ansi called once on a text                    *)
(***************************************************************************)
ToAnsiTexts == ShortTexts \cup DirectiveTexts \cup PlainTexts \cup StyleSpanTexts \cup ExampleTexts

InitToAnsi ==
  /\ pc = "call"
  /\ \/ string \in ToAnsiTexts /\ default_color \in {None, Gray} /\ brightness_steps = DEFAULT_BRIGHTNESS_STEPS
     \/ string \in ExampleTexts /\ default_color \in DefaultColors /\ brightness_steps \in BrightnessSteps
  /\ escape_char = "/"
  /\ NoResults

\* FormatCodes.to_ansi(string, default_color, brightness_steps)
ToAnsi ==
  /\ pc = "call"
  /\ ansi' = to_ansi(string, default_color, brightness_steps)
  /\ pc' = "to_ansi"
  /\ UNCHANGED <<string, default_color, brightness_steps, escape_char, previous, escaped, escaped_again, stripped, tracked, token, console_vars, regex_vars, result_vars>>

NextToAnsi == ToAnsi

SpecToAnsi == InitToAnsi /\ [][NextToAnsi]_vars

(***************************************************************************)
(* Escaping: FormatCodes.escape, then escape or to_ansi on its result      *)
(***************************************************************************)
EscapeTexts == ShortTexts \cup DirectiveTexts \cup ExampleTexts \cup EscapedTexts

InitEscape ==
  /\ pc = "call"
  /\ string \in EscapeTexts /\ default_color \in {None, Gray} /\ brightness_steps = DEFAULT_BRIGHTNESS_STEPS
  /\ escape_char \in {"/", "\\"}
  /\ NoResults

\* FormatCodes.escape(string, default_color, escape_char)
Escape ==
  /\ pc = "call"
  /\ escaped' = escape(string, default_color, escape_char)
  /\ pc' = "escape"
  /\ UNCHANGED <<string, default_color, brightness_steps, escape_char, ansi, previous, escaped_again, stripped, tracked, token, console_vars, regex_vars, result_vars>>

\* FormatCodes.escape called on the string the first call returned
EscapeAgain ==
  /\ pc = "escape" /\ escaped.raised = "none"
  /\ escaped_again' = escape(escaped.value, default_color, escape_char)
  /\ pc' = "escape_again"
  /\ UNCHANGED <<string, default_color, brightness_steps, escape_char, ansi, previous, escaped, stripped, tracked, token, console_vars, regex_vars, result_vars>>

\* FormatCodes.to_ansi called on the string escape returned
ToAnsiEscaped ==
  /\ pc = "escape" /\ escaped.raised = "none"
  /\ ansi' = to_ansi(escaped.value, default_color, brightness_steps)
  /\ pc' = "to_ansi_escaped"
  /\ UNCHANGED <<string, default_color, brightness_steps, escape_char, previous, escaped, escaped_again, stripped, tracked, token, console_vars, regex_vars, result_vars>>

NextEscape == Escape \/ EscapeAgain \/ ToAnsiEscaped

SpecEscape == InitEscape /\ [][NextEscape]_vars

(***************************************************************************)
(* Stripping: FormatCodes.remove on a text, FormatCodes.remove_ansi on a   *)
(* string with escape sequences, without and with tracking                 *)
(***************************************************************************)
StripTexts == ShortTexts \cup DirectiveTexts \cup ExampleTexts \cup AnsiTexts

InitStrip ==
  /\ pc = "call"
  /\ string \in StripTexts /\ default_color \in {None, Gray} /\ brightness_steps = DEFAULT_BRIGHTNESS_STEPS
  /\ escape_char = "/"
  /\ NoResults

\* FormatCodes.remove(string, default_color)
Remove ==
  /\ pc = "call"
  /\ stripped' = remove(string, default_color, FALSE)
  /\ pc' = "remove"
  /\ UNCHANGED <<string, default_color, brightness_steps, escape_char, ansi, previous, escaped, escaped_again, tracked, token, console_vars, regex_vars, result_vars>>

\* FormatCodes.remove_ansi(string)
RemoveAnsi ==
  /\ pc = "call"
  /\ stripped' = [raised |-> "none"] @@ remove_ansi(string, FALSE, FALSE)
  /\ pc' = "remove_ansi"
  /\ UNCHANGED <<string, default_color, brightness_steps, escape_char, ansi, previous, escaped, escaped_again, tracked, token, console_vars, regex_vars, result_vars>>

\* FormatCodes.remove_ansi(string, get_removals=True)
RemoveAnsiTracked ==
  /\ pc = "remove_ansi"
  /\ tracked' = [raised |-> "none"] @@ remove_ansi(string, TRUE, FALSE)
  /\ pc' = "remove_ansi_tracked"
  /\ UNCHANGED <<string, default_color, brightness_steps, escape_char, ansi, previous, escaped, escaped_again, stripped, token, console_vars, regex_vars, result_vars>>

NextStrip == Remove \/ RemoveAnsi \/ RemoveAnsiTracked

SpecStrip == InitStrip /\ [][NextStrip]_vars

(***************************************************************************)
(* Modifiers: FormatCodes._get_replacement on the key of a lighten or      *)
(* darken directive whose run grows by one character from call to call.   *)
(* The resolver is called with the rgba colour directly, because           *)
(* to_ansi never gets past _validate_default_color with a default colour.  *)
(***************************************************************************)
InitModifier ==
  /\ pc = "call"
  /\ string \in ModifierTexts /\ default_color \in ModifierColors /\ brightness_steps \in ModifierSteps
  /\ escape_char = "/"
  /\ NoResults

\* the run length of the modifier directive `[l...l]` or `[bg:l...l]`
RunLength(s) == IF s[2] = "b" THEN Len(s) - 5 ELSE Len(s) - 2

\* the key written in the directive
KeyOf(s) == SubSeq(s, 2, Len(s) - 1)

\* what a call of the resolver returned or raised
replacement_result(out) ==
  IF Raised(out) THEN [raised |-> ERR, value |-> <<>>] ELSE [raised |-> "none", value |-> out]

\* FormatCodes._get_replacement(key, default_color, brightness_steps) for the key of the
\* directive
GetReplacement ==
  /\ pc = "call"
  /\ ansi' = replacement_result(get_replacement(KeyOf(string), default_color, brightness_steps))
  /\ pc' = "get_replacement"
  /\ UNCHANGED <<string, default_color, brightness_steps, escape_char, previous, escaped, escaped_again, stripped, tracked, token, console_vars, regex_vars, result_vars>>

\* the next call takes the directive with its run one character longer
LongerRun ==
  /\ pc = "get_replacement" /\ RunLength(string) < MaxRun
  /\ string' = SubSeq(string, 1, Len(string) - 1) \o <<string[Len(string) - 1], "]">>
  /\ previous' = ansi
  /\ ansi' = NotCalled
  /\ pc' = "call"
  /\ UNCHANGED <<default_color, brightness_steps, escape_char, escaped, escaped_again, stripped, tracked, token, console_vars, regex_vars, result_vars>>

NextModifier == GetReplacement \/ LongerRun

SpecModifier == InitModifier /\ [][NextModifier]_vars

(***************************************************************************)
(* Properties of compiling                                                 *)
(***************************************************************************)
\* to_ansi has returned normally
Compiled == pc = "to_ansi" /\ ansi.raised = "none"

\* the call has brightness steps and a default colour that to_ansi accepts
ValidCall ==
  0 < brightness_steps /\ brightness_steps <= 100 /\ validate_default_color(default_color) = "none"

\* the text behind the default colour that to_ansi puts in front of what it compiled
BodyOf(result) ==
  IF default_color # None THEN Drop(result.value, Len(SEQ_COLOR(default_color))) ELSE result.value
Body == BodyOf(ansi)

\* the nonblank, stripped entries of a list of key texts
Nonblank(parts) == SelectSeq([i \in 1..Len(parts) |-> strip(parts[i])], LAMBDA k : k # <<>>)
\* the keys written between two brackets: the nonblank parts between the pipes
KeysIn(content) == Nonblank(split(content, "|"))

\* the keys of the directive a text opens with, <<>> if it opens with none
LeadingKeys(s) ==
  IF s # <<>> /\ s[1] = "[" /\ FirstIndex(s, 2, "]") # 0
  THEN KeysIn(SubSeq(s, 2, FirstIndex(s, 2, "]") - 1))
  ELSE <<>>

\* r is an SGR sequence the resolver gave for the key k
ResolvedAs(k, r) == r # k /\ ~Raised(r)
\* the resolver gives an SGR sequence for the key under the default colour and steps of the call
Looked(k) == ResolvedAs(k, get_replacement(k, default_color, brightness_steps))
\* the key resolves on its own; `*` is the documented reset key that to_ansi rewrites
\* to `_` before it looks keys up
Resolves(k) == k = <<"*">> \/ Looked(k)

\* the SGR sequence of a key that resolves
SGR(k) == get_replacement(IF k = <<"*">> THEN <<"_">> ELSE k, default_color, brightness_steps)
\* the SGR sequences of a list of keys, in key order
SGRs(keys) == Concat([i \in 1..Len(keys) |-> SGR(keys[i])])

\* no SGR sequence of a resolving key of the list occurs in the text
NoneApplied(keys, text) == \A i \in 1..Len(keys) : Resolves(keys[i]) => ~Contains(text, SGR(keys[i]))
\* all-or-nothing for the keys of one directive and the compiled text
AllOrNothing(keys, text) == (\E i \in 1..Len(keys) : ~Resolves(keys[i])) => NoneApplied(keys, text)

\* the text opens with a directive and holds no other one
OneDirective(s) == LeadingKeys(s) # <<>> /\ "[" \notin Range(Tail(s))

\* C1: when a directive has a key that does not resolve, the compiled text holds no SGR
\* sequence of any of its keys, the keys that resolve on their own included
C1_AllOrNothing == (Compiled /\ OneDirective(string)) => AllOrNothing(LeadingKeys(string), Body)

\* a directive with a resolving and an unresolved key was compiled and stayed literal
C1_Witness ==
  /\ Compiled /\ string = <<"[", "b", "o", "l", "d", "|", "t", "o", "t", "a", "l", "l", "y", "I", "n", "v", "a", "l", "i", "d", "]", "x">>
  /\ Resolves(<<"b", "o", "l", "d">>) /\ ~Resolves(<<"t", "o", "t", "a", "l", "l", "y", "I", "n", "v", "a", "l", "i", "d">>)
  /\ Body = string

\* the bracket groups of a text: an opening and the next closing bracket with no bracket between
Groups(s) ==
  {g \in (1..Len(s)) \X (1..Len(s)) :
     /\ g[1] < g[2] /\ s[g[1]] = "[" /\ s[g[2]] = "]"
     /\ \A i \in (g[1] + 1)..(g[2] - 1) : s[i] \notin {"[", "]"}}

\* one or more keys, all of them resolvable
AllResolve(keys) == keys # <<>> /\ \A i \in 1..Len(keys) : Resolves(keys[i])
\* the group consists solely of one or more resolvable keys
ResolvableGroup(s, g) == AllResolve(KeysIn(SubSeq(s, g[1] + 1, g[2] - 1)))

\* the text has no ESC character and no group made only of resolvable keys
NothingToResolve(s) == ESC \notin Range(s) /\ \A g \in Groups(s) : ~ResolvableGroup(s, g)

\* C2: with no default colour, a text without ESC characters in which no bracket group
\* consists solely of resolvable keys is compiled to itself
C2_Verbatim ==
  (pc = "to_ansi" /\ default_color = None /\ ValidCall /\ NothingToResolve(string))
    => (ansi.raised = "none" /\ ansi.value = string)

\* the SGR sequence with the parameter n
Sgr(n) == <<ESC, "[">> \o IntToStr(n) \o <<"m">>

\* the SGR parameter that switches a documented text style on
StyleOn(k) ==
  CASE k \in {<<"b", "o", "l", "d">>, <<"b">>} -> 1
    [] k \in {<<"d", "i", "m">>} -> 2
    [] k \in {<<"i", "t", "a", "l", "i", "c">>, <<"i">>} -> 3
    [] k \in {<<"u", "n", "d", "e", "r", "l", "i", "n", "e">>, <<"u">>} -> 4
    [] k \in {<<"i", "n", "v", "e", "r", "s", "e">>, <<"i", "n", "v", "e", "r", "t">>, <<"i", "n">>} -> 7
    [] k \in {<<"h", "i", "d", "d", "e", "n">>, <<"h", "i", "d", "e">>, <<"h">>} -> 8
    [] k \in {<<"s", "t", "r", "i", "k", "e", "t", "h", "r", "o", "u", "g", "h">>, <<"s">>} -> 9
    [] k \in {<<"d", "o", "u", "b", "l", "e", "-", "u", "n", "d", "e", "r", "l", "i", "n", "e">>, <<"d", "u">>} -> 21
\* the SGR parameter of the specific reset of a documented text style
StyleOff(k) ==
  CASE k \in {<<"b", "o", "l", "d">>, <<"b">>, <<"d", "i", "m">>} -> 22
    [] k \in {<<"i", "t", "a", "l", "i", "c">>, <<"i">>} -> 23
    [] k \in {<<"u", "n", "d", "e", "r", "l", "i", "n", "e">>, <<"u">>, <<"d", "o", "u", "b", "l", "e", "-", "u", "n", "d", "e", "r", "l", "i", "n", "e">>, <<"d", "u">>} -> 24
    [] k \in {<<"i", "n", "v", "e", "r", "s", "e">>, <<"i", "n", "v", "e", "r", "t">>, <<"i", "n">>} -> 27
    [] k \in {<<"h", "i", "d", "d", "e", "n">>, <<"h", "i", "d", "e">>, <<"h">>} -> 28
    [] k \in {<<"s", "t", "r", "i", "k", "e", "t", "h", "r", "o", "u", "g", "h">>, <<"s">>} -> 29

\* what `[cyan]a [k1|...|kn](b) c` is to compile to: cyan, the text, the style codes, the
\* span text, the specific resets of the styles, the text
StyleSpanCompiled(keys) ==
  Sgr(36) \o <<"a", " ">> \o Concat([i \in 1..Len(keys) |-> Sgr(StyleOn(keys[i]))]) \o <<"b">>
    \o Concat([i \in 1..Len(keys) |-> Sgr(StyleOff(keys[i]))]) \o <<" ", "c">>

\* the text has no total reset and no foreground or background reset
NoColourReset(text) == ~Contains(text, Sgr(0)) /\ ~Contains(text, Sgr(39)) /\ ~Contains(text, Sgr(49))

\* C3: a directive of documented text styles with an auto-reset span compiles to the style
\* codes, the span text and the specific resets of those styles, with no SGR 0, 39 or 49, so
\* the colour of the earlier directive stays active
C3_StyleSpanResets ==
  (pc = "to_ansi" /\ ValidCall /\ string \in StyleSpanTexts) =>
    /\ ansi.raised = "none"
    /\ Body = StyleSpanCompiled(LeadingKeys(Drop(string, 8)))
    /\ NoColourReset(Body)

\* `[cyan]a [u](b) c` was compiled: underline on, underline off, cyan never reset
C3_Witness ==
  /\ Compiled /\ string = <<"[", "c", "y", "a", "n", "]", "a", " ", "[", "u", "]", "(", "b", ")", " ", "c">>
  /\ Body = <<ESC>> \o <<"[", "3", "6", "m", "a", " ">> \o <<ESC>> \o <<"[", "4", "m", "b">> \o <<ESC>> \o <<"[", "2", "4", "m", " ", "c">>

\* the marker of a text that is not made of literal text and plain directives only
Other == "other"
\* the directive that opens at p closes at j, holds one or more keys that the resolver
\* resolves, and is not followed by a span
PlainDirective(s, p, j) ==
  /\ j # 0
  /\ \A i \in (p + 1)..(j - 1) : s[i] \notin {"[", "*", "\n"}
  /\ KeysIn(SubSeq(s, p + 1, j - 1)) # <<>>
  /\ \A i \in 1..Len(KeysIn(SubSeq(s, p + 1, j - 1))) : Looked(KeysIn(SubSeq(s, p + 1, j - 1))[i])
  /\ CharAt(s, j + 1) \notin {"(", "/", "\\"}

RECURSIVE Concatenated(_, _), ConcatenatedAt(_, _, _)
\* the text from the bracket at p on, whose next closing bracket is at j
ConcatenatedAt(s, p, j) ==
  IF PlainDirective(s, p, j)
  THEN SGRs(KeysIn(SubSeq(s, p + 1, j - 1))) \o Concatenated(s, j + 1)
  ELSE <<Other>>
\* the text from p on with every plain directive replaced by the SGR sequences of its keys
\* in key order and the text between the directives unchanged
Concatenated(s, p) ==
  IF p > Len(s) THEN <<>>
  ELSE IF s[p] # "[" THEN <<s[p]>> \o Concatenated(s, p + 1)
  ELSE ConcatenatedAt(s, p, FirstIndex(s, p + 1, "]"))

\* the result is the expected text, for a text of literal text and plain directives
YieldsConcatenated(expected, result) ==
  Other \notin Range(expected) => (result.raised = "none" /\ result.value = expected)

\* C9: with no default colour, a directive without a span whose keys all resolve is replaced
\* by the SGR sequences of its keys in key order, and the text between directives stays
C9_KeyOrderConcatenation ==
  (pc = "to_ansi" /\ default_color = None /\ ValidCall /\ "[" \in Range(string))
    => YieldsConcatenated(Concatenated(string, 1), ansi)

\* `[b|red]Error:[_] msg` was compiled to bold, red, the text, total reset, the text
C9_Witness ==
  /\ Compiled /\ default_color = None /\ string = <<"[", "b", "|", "r", "e", "d", "]", "E", "r", "r", "o", "r", ":", "[", "_", "]", " ", "m", "s", "g">>
  /\ Concatenated(string, 1) = ansi.value
  /\ ansi.value = <<ESC>> \o <<"[", "1", "m">> \o <<ESC>> \o <<"[", "3", "1", "m", "E", "r", "r", "o", "r", ":">> \o <<ESC>> \o <<"[", "0", "m", " ", "m", "s", "g">>

\* the exception is a ValueError
IsValueError(raised) == raised \in {"ValueError(brightness_steps)", ERR}

\* C10: to_ansi raises ValueError for every brightness_steps outside (0, 100], whatever
\* the text and the default colour are, and never raises it for steps within (0, 100]
C10_StepsValueError ==
  pc = "to_ansi" =>
    /\ IsValueError(ansi.raised) <=> ~(0 < brightness_steps /\ brightness_steps <= 100)
    /\ ~(0 < brightness_steps /\ brightness_steps <= 100) => ansi.raised = "ValueError(brightness_steps)"

\* to_ansi was called with brightness_steps = 0, a default colour and a text with a modifier directive,
\* and raised the ValueError of its guard
C10_Witness ==
  /\ pc = "to_ansi" /\ brightness_steps = 0 /\ default_color = Gray
  /\ string = <<"[", "l", "l", "l", "l", "l", "l", "]", "x">>
  /\ ansi.raised = "ValueError(brightness_steps)"

(***************************************************************************)
(* Properties of escaping                                                  *)
(***************************************************************************)
\* C4: escaping is idempotent for either escape character: escaping the escaped string
\* again returns it unchanged
C4_EscapeIdempotent ==
  pc = "escape_again" => (escaped_again.raised = "none" /\ escaped_again.value = escaped.value)

\* the text holds an ANSI escape sequence
HasAnsiSeq(text) == \E p \in 1..Len(text) : ansi_seq_end(text, p) # 0

\* C5: compiling the escaped form of a text without ESC characters yields no ANSI escape
\* sequence behind the default colour: every directive of the text is printed literally
C5_EscapeNeutralizes ==
  (pc = "to_ansi_escaped" /\ ESC \notin Range(string)) => (ansi.raised = "none" /\ ~HasAnsiSeq(Body))

(***************************************************************************)
(* Properties of stripping                                                 *)
(***************************************************************************)
\* C6: remove returns a text unchanged that has no ESC character and no directive whose
\* keys all resolve
C6_StripRoundTrip ==
  (pc = "remove" /\ default_color = None /\ NothingToResolve(string))
    => (stripped.raised = "none" /\ stripped.clean = string)

RECURSIVE SequenceStarts(_, _), SequenceStartsAt(_, _, _)
\* the matches of the escape-sequence pattern from p on, e being the end of a match at p
SequenceStartsAt(s, p, e) ==
  IF e = 0 THEN SequenceStarts(s, p + 1) ELSE <<<<p, e>>>> \o SequenceStarts(s, e)
\* the escape sequences of a string in input order, each as <<first position, position behind>>
SequenceStarts(s, p) ==
  IF p > Len(s) THEN <<>> ELSE SequenceStartsAt(s, p, ansi_seq_end(s, p))

RECURSIVE TotalLength(_, _)
\* the total length of the first n sequences
TotalLength(seqs, n) ==
  IF n = 0 THEN 0 ELSE (seqs[n][2] - seqs[n][1]) + TotalLength(seqs, n - 1)

\* the removals list the sequences of s in input order, each with the number of kept
\* characters before it
ListsSequences(s, seqs, removals) ==
  /\ Len(removals) = Len(seqs)
  /\ \A i \in 1..Len(seqs) :
       /\ removals[i][2] = SubSeq(s, seqs[i][1], seqs[i][2] - 1)
       /\ removals[i][1] = (seqs[i][1] - 1) - TotalLength(seqs, i - 1)

\* the positions of the removals never decrease
NonDecreasing(removals) == \A i \in 1..(Len(removals) - 1) : removals[i][1] <= removals[i + 1][1]

\* the removed texts recorded at the position k, in list order
RemovedAt(removals, k) ==
  Concat([i \in 1..Len(SelectSeq(removals, LAMBDA r : r[1] = k)) |-> SelectSeq(removals, LAMBDA r : r[1] = k)[i][2]])

RECURSIVE ReinsertFrom(_, _, _)
\* the clean text from the offset k on with the removed texts put back at their positions
ReinsertFrom(clean, removals, k) ==
  IF k > Len(clean) THEN <<>>
  ELSE RemovedAt(removals, k) \o (IF k < Len(clean) THEN <<clean[k + 1]>> ELSE <<>>)
         \o ReinsertFrom(clean, removals, k + 1)
\* the removed texts inserted back into the clean text at the recorded positions, in list order
Reinsert(clean, removals) == ReinsertFrom(clean, removals, 0)

\* C7: remove_ansi with tracking returns the clean string that remove_ansi returns without
\* tracking, lists the deleted sequences in input order with non-decreasing positions that
\* count the kept characters before each sequence, and reinsertion reconstructs the input
C7_TrackedRemovals ==
  pc = "remove_ansi_tracked" =>
    /\ tracked.clean = stripped.clean
    /\ ListsSequences(string, SequenceStarts(string, 1), tracked.removals)
    /\ NonDecreasing(tracked.removals)
    /\ Reinsert(tracked.clean, tracked.removals) = string

\* two sequences were removed from `ab<red>cd<reset>ef` and recorded at the offsets 2 and 4
C7_Witness ==
  /\ pc = "remove_ansi_tracked"
  /\ string = <<"a", "b">> \o <<ESC>> \o <<"[", "3", "1", "m">> \o <<"c", "d">> \o <<ESC>> \o <<"[", "0", "m">> \o <<"e", "f">>
  /\ tracked.clean = <<"a", "b", "c", "d", "e", "f">>
  /\ tracked.removals = <<<<2, <<ESC>> \o <<"[", "3", "1", "m">>>>, <<4, <<ESC>> \o <<"[", "0", "m">>>>>>
  /\ Reinsert(tracked.clean, tracked.removals) = string

(***************************************************************************)
(* Properties of the default-colour modifiers                              *)
(***************************************************************************)
\* the parameters of the SGR sequence ESC [ p1 ; ... ; pn m
SgrParams(sequence) ==
  [i \in 1..Len(split(SubSeq(sequence, 3, Len(sequence) - 1), ";")) |->
     StrToInt(split(SubSeq(sequence, 3, Len(sequence) - 1), ";")[i], 10)]
\* the colour of a set-colour sequence 38;2;r;g;b or 48;2;r;g;b
ColourOf(params) == <<params[3], params[4], params[5]>>
\* the HSL lightness of the colour the resolver returned for the modifier key
EmittedLightness(result) == rgb_to_hsl(ColourOf(SgrParams(result.value)))[3]

\* the directive is a lighten modifier
IsLighten(s) == s[Len(s) - 1] \in {"l", "+"}

\* C8: with brightness_steps = 20 the lightness of the colour emitted for a lighten run of
\* length n + 1 is at least that for length n, and it is 100 for every run with n * 20 >= 100
C8_LightenMonotonic ==
  (pc = "get_replacement" /\ brightness_steps = 20 /\ IsLighten(string)) =>
    /\ ansi.raised = "none"
    /\ previous.raised = "none" => EmittedLightness(ansi) >= EmittedLightness(previous)
    /\ RunLength(string) * 20 >= 100 => EmittedLightness(ansi) = 100

(***************************************************************************)
(* Default colours: FormatCodes.to_ansi, FormatCodes.escape and            *)
(* FormatCodes.remove called once with each value of default_color         *)
(***************************************************************************)
DefaultColorTexts ==
  ExampleTexts \cup ModifierTexts \cup {<<"x">>, <<"[", "b", "]", "(", "x">>, <<"[", "r", "g", "b", "(", "3", "0", "0", ",", "0", ",", "0", ")", "]", "x">>, <<"[", "z", "z", "|", "b", "]", "x">>}
DefaultColorSteps == {1, DEFAULT_BRIGHTNESS_STEPS, 100}

InitDefaultColor ==
  /\ pc = "call"
  /\ string \in DefaultColorTexts /\ default_color \in DefaultColors /\ brightness_steps \in DefaultColorSteps
  /\ escape_char = "/"
  /\ NoResults

NextDefaultColor == ToAnsi \/ Escape \/ Remove

SpecDefaultColor == InitDefaultColor /\ [][NextDefaultColor]_vars

\* the exception is a TypeError
IsTypeError(raised) == raised \in {"TypeError(default_color)", "TypeError(is_valid_hexa)"}

\* the RGB triple of a valid default colour: the tuple itself, or hexa(color).to_rgba() of
\* the digits behind the prefix
RgbOf(color) == IF is_tuple_color(color) THEN color ELSE hex_to_rgb(Drop(color, 1))

\* the claim about a call that has returned or raised `raised`: it raised TypeError exactly
\* when the default colour is neither None nor a valid colour
RaisedIffInvalid(raised) == IsTypeError(raised) <=> ~valid_default_color(default_color)

\* C11: to_ansi, escape and remove raise the invalid-argument error exactly when default_color
\* is neither None nor a valid RGBA or HEXA colour; a valid colour is accepted and to_ansi
\* puts the set-colour sequence of its RGB triple in front of the text
C11_DefaultColorValidation ==
  /\ pc = "to_ansi" =>
       /\ RaisedIffInvalid(ansi.raised)
       /\ (valid_default_color(default_color) /\ default_color # None)
            => startswith(ansi.value, SEQ_COLOR(RgbOf(default_color)))
  /\ pc = "escape" => RaisedIffInvalid(escaped.raised)
  /\ pc = "remove" => RaisedIffInvalid(stripped.raised)

\* C12: with brightness steps in (0, 100] and a default colour that is None or valid, to_ansi,
\* escape and remove return a result for every text and never raise
C12_NeverRaises ==
  (0 < brightness_steps /\ brightness_steps <= 100 /\ valid_default_color(default_color)) =>
    /\ pc = "to_ansi" => ansi.raised = "none"
    /\ pc = "escape" => escaped.raised = "none"
    /\ pc = "remove" => stripped.raised = "none"

(***************************************************************************)
(* The console: threads calling FormatCodes.print and FormatCodes.input,   *)
(* both of which start with FormatCodes._config_console.  No lock guards   *)
(* the module global, so the threads interleave between the statements.    *)
(***************************************************************************)
\* a thread outside print and input
Idle == [in |-> "", at |-> "idle"]

InitConsole ==
  /\ pc = "call" /\ string = <<>> /\ default_color = None /\ brightness_steps = DEFAULT_BRIGHTNESS_STEPS
  /\ escape_char = "/"
  /\ ansi = NotCalled /\ previous = NotCalled /\ escaped = NotCalled /\ escaped_again = NotCalled
  /\ stripped = NotStripped /\ tracked = NotStripped /\ token = NoMatch
  /\ CONSOLE_ANSI_CONFIGURED = FALSE /\ flushes = 0 /\ mode_sets = 0
  /\ os_name \in {"nt", "posix"}
  /\ console_pc = [t \in Threads |-> Idle]
  /\ RegexUntouched /\ NoFollowUps

\* FormatCodes.print(...): the call enters cls._config_console()
print_call(t) ==
  /\ console_pc[t].at = "idle"
  /\ console_pc' = [console_pc EXCEPT ![t] = [in |-> "print", at |-> "test"]]
  /\ UNCHANGED <<call_vars, CONSOLE_ANSI_CONFIGURED, flushes, mode_sets, os_name, regex_vars, result_vars>>

\* FormatCodes.input(...): the call enters cls._config_console()
input_call(t) ==
  /\ console_pc[t].at = "idle"
  /\ console_pc' = [console_pc EXCEPT ![t] = [in |-> "input", at |-> "test"]]
  /\ UNCHANGED <<call_vars, CONSOLE_ANSI_CONFIGURED, flushes, mode_sets, os_name, regex_vars, result_vars>>

\* if not _CONSOLE_ANSI_CONFIGURED:
TestConfigured(t) ==
  /\ console_pc[t].at = "test"
  /\ console_pc' = [console_pc EXCEPT ![t].at = IF CONSOLE_ANSI_CONFIGURED THEN "output" ELSE "flush"]
  /\ UNCHANGED <<call_vars, CONSOLE_ANSI_CONFIGURED, flushes, mode_sets, os_name, regex_vars, result_vars>>

\* _sys.stdout.flush()
Flush(t) ==
  /\ console_pc[t].at = "flush"
  /\ flushes' = flushes + 1
  /\ console_pc' = [console_pc EXCEPT ![t].at = IF os_name = "nt" THEN "vt100" ELSE "set"]
  /\ UNCHANGED <<call_vars, CONSOLE_ANSI_CONFIGURED, mode_sets, os_name, regex_vars, result_vars>>

\* if _os.name == "nt": kernel32.SetConsoleMode(h, mode.value | 0x0004), or an exception on
\* the way to it that the except clause swallows
EnableVT100(t) ==
  /\ console_pc[t].at = "vt100"
  /\ mode_sets' \in {mode_sets, mode_sets + 1}
  /\ console_pc' = [console_pc EXCEPT ![t].at = "set"]
  /\ UNCHANGED <<call_vars, CONSOLE_ANSI_CONFIGURED, flushes, os_name, regex_vars, result_vars>>

\* _CONSOLE_ANSI_CONFIGURED = True
SetConfigured(t) ==
  /\ console_pc[t].at = "set"
  /\ CONSOLE_ANSI_CONFIGURED' = TRUE
  /\ console_pc' = [console_pc EXCEPT ![t].at = "output"]
  /\ UNCHANGED <<call_vars, flushes, mode_sets, os_name, regex_vars, result_vars>>

\* the rest of print or input: the text is compiled and written, and the call returns
Output(t) ==
  /\ console_pc[t].at = "output"
  /\ console_pc' = [console_pc EXCEPT ![t] = Idle]
  /\ UNCHANGED <<call_vars, CONSOLE_ANSI_CONFIGURED, flushes, mode_sets, os_name, regex_vars, result_vars>>

NextConsole ==
  \E t \in Threads :
    print_call(t) \/ input_call(t) \/ TestConfigured(t) \/ Flush(t) \/ EnableVT100(t) \/ SetConfigured(t) \/ Output(t)

SpecConsole == InitConsole /\ [][NextConsole]_vars

\* C13: under every interleaving of the calls of _config_console the console is configured
\* (stdout flushed, the console mode set) at most once, and _CONSOLE_ANSI_CONFIGURED stays
\* True once it is True
C13_ConfiguredOnce ==
  /\ [](flushes <= 1 /\ mode_sets <= 1)
  /\ [][CONSOLE_ANSI_CONFIGURED => CONSOLE_ANSI_CONFIGURED']_vars

(***************************************************************************)
(* LazyRegex: threads reading attributes of one instance.  A read first    *)
(* looks the name up on the instance; LazyRegex.__getattr__ runs only      *)
(* where that finds nothing.  Nothing locks the instance, so the threads   *)
(* interleave between the statements of __getattr__.                       *)
(***************************************************************************)
InitLazyRegex ==
  /\ pc = "call" /\ string = <<>> /\ default_color = None /\ brightness_steps = DEFAULT_BRIGHTNESS_STEPS
  /\ escape_char = "/"
  /\ ansi = NotCalled /\ previous = NotCalled /\ escaped = NotCalled /\ escaped_again = NotCalled
  /\ stripped = NotStripped /\ tracked = NotStripped /\ token = NoMatch
  /\ ConsoleUntouched /\ os_name = "posix"
  /\ patterns = PatternSources
  /\ cache = [n \in DOMAIN PatternSources |-> NoPattern]
  /\ access = [t \in Threads |-> NoAccess]
  /\ NoFollowUps

\* the attribute `name` is set on the instance
IsCached(name) == name \in DOMAIN cache /\ cache[name] # NoPattern

\* _rx.compile(source): a pattern object of that source; threads get objects of their own
rx_compile(source, t) == [pattern |-> source, compiled_by |-> t]

\* an instance on which the attribute is not set
setattr_skipped(attributes, name, compiled) == attributes

\* setattr(self, name, compiled)
setattr(attributes, name, compiled) == [attributes EXCEPT ![name] = compiled]

\* a thread reads instance.name: the lookup on the instance returns the attribute that is
\* set, or finds none and calls __getattr__(name)
GetAttribute(t, name) ==
  /\ access[t].at \in {"idle", "done"}
  /\ access' = [access EXCEPT ![t] =
       IF IsCached(name)
       THEN [at |-> "done", name |-> name, compiled |-> NoPattern, returned |-> cache[name], raised |-> "none"]
       ELSE [at |-> "getattr", name |-> name, compiled |-> NoPattern, returned |-> NoPattern, raised |-> "none"]]
  /\ UNCHANGED <<call_vars, console_vars, patterns, cache, result_vars>>

\* if name in self._patterns: ... else raise AttributeError
TestDeclared(t) ==
  /\ access[t].at = "getattr"
  /\ access' = [access EXCEPT ![t] =
       IF access[t].name \in DOMAIN patterns
       THEN [@ EXCEPT !.at = "compile"]
       ELSE [@ EXCEPT !.at = "done", !.raised = "AttributeError"]]
  /\ UNCHANGED <<call_vars, console_vars, patterns, cache, result_vars>>

\* compiled := _rx.compile(self._patterns[name])
Compile(t) ==
  /\ access[t].at = "compile"
  /\ access' = [access EXCEPT ![t].at = "setattr", ![t].compiled = rx_compile(patterns[access[t].name], t)]
  /\ UNCHANGED <<call_vars, console_vars, patterns, cache, result_vars>>

\* setattr(self, name, compiled)
SetAttr(t) ==
  /\ access[t].at = "setattr"
  /\ cache' = setattr(cache, access[t].name, access[t].compiled)
  /\ access' = [access EXCEPT ![t].at = "return"]
  /\ UNCHANGED <<call_vars, console_vars, patterns, result_vars>>

\* return compiled
ReturnCompiled(t) ==
  /\ access[t].at = "return"
  /\ access' = [access EXCEPT ![t].at = "done", ![t].returned = access[t].compiled]
  /\ UNCHANGED <<call_vars, console_vars, patterns, cache, result_vars>>

NextLazyRegex ==
  \E t \in Threads :
    \/ \E name \in AttributeNames : GetAttribute(t, name)
    \/ TestDeclared(t) \/ Compile(t) \/ SetAttr(t) \/ ReturnCompiled(t)

SpecLazyRegex == InitLazyRegex /\ [][NextLazyRegex]_vars

\* a compiled pattern of the source declared under the name
CompiledFor(pattern, name) == pattern # NoPattern /\ pattern.pattern = PatternSources[name]

\* every completed read of a declared name returned a compiled pattern of its source and did
\* not raise, the name is cached from then on, the cache holds nothing else under a name,
\* and the table of sources is as constructed
CacheSound ==
  /\ patterns = PatternSources
  /\ \A n \in DOMAIN PatternSources : cache[n] = NoPattern \/ CompiledFor(cache[n], n)
  /\ \A t \in Threads :
       (access[t].at = "done" /\ access[t].name \in DOMAIN PatternSources) =>
         /\ access[t].raised = "none"
         /\ CompiledFor(access[t].returned, access[t].name)
         /\ IsCached(access[t].name)

\* thread t begins a read of the name in this step
Begins(t, name) ==
  access[t].at \in {"idle", "done"} /\ access'[t] # access[t] /\ access'[t].name = name

\* a name that is cached stays cached, and a read that begins while the name is cached
\* returns the cached pattern at once
CacheKept ==
  \A n \in DOMAIN PatternSources :
    IsCached(n) =>
      /\ CompiledFor(cache'[n], n)
      /\ \A t \in Threads :
           Begins(t, n) => access'[t].at = "done" /\ access'[t].returned = cache[n]

\* C14: under every interleaving of concurrent first reads of a declared name each read
\* returns a compiled pattern of that name's source and none raises; the table of sources
\* is never modified; once a read has completed every later read returns a cached compiled
\* pattern of that source, and the cache never holds anything else under that name
C14_LazyPatternCache == []CacheSound /\ [][CacheKept]_vars

\* two threads read `email` for the first time at once: each compiled and returned a
\* pattern of its own, and the instance keeps one of them
C14_Witness ==
  /\ access[1].at = "done" /\ access[1].name = "email" /\ access[1].returned = rx_compile(PatternSources.email, 1)
  /\ access[2].at = "done" /\ access[2].name = "email" /\ access[2].returned = rx_compile(PatternSources.email, 2)
  /\ cache.email = rx_compile(PatternSources.email, 1)

(***************************************************************************)
(* Key normalization: FormatCodes._normalize_key called on one key that    *)
(* is written with either alias of each prefix, in either prefix order, in *)
(* lower, upper or mixed case, and with or without spaces                  *)
(***************************************************************************)
BgWritings == {<<>>, <<"b", "g">>, <<"B", "G">>, <<"b", "a", "c", "k", "g", "r", "o", "u", "n", "d">>, <<"B", "a", "c", "k", "G", "r", "o", "u", "n", "d">>}
BrWritings == {<<>>, <<"b", "r">>, <<"B", "r">>, <<"b", "r", "i", "g", "h", "t">>, <<"B", "R", "I", "G", "H", "T">>}
RestWritings == {<<>>, <<"r", "e", "d">>, <<"R", "E", "D">>, <<"R", "e", "d">>, <<"r", " ", "e", " ", "d">>, <<"#", "f", "0", "0">>, <<"#", "F", "0", "0">>}
Spacings == {"none", "colons", "ends"}
KeyWritings == [bg : BgWritings, br : BrWritings, rest : RestWritings, bright_first : BOOLEAN, spacing : Spacings]

\* the key text of a writing: the prefixes in the chosen order, then the rest, each prefix
\* followed by a colon
Written(w) ==
  LET colon == IF w.spacing = "colons" THEN <<" ", ":", " ">> ELSE <<":">>
      bg == IF w.bg = <<>> THEN <<>> ELSE w.bg \o colon
      br == IF w.br = <<>> THEN <<>> ELSE w.br \o colon
      key == (IF w.bright_first THEN br \o bg ELSE bg \o br) \o w.rest
  IN IF w.spacing = "ends" THEN <<" ">> \o key \o <<" ", " ">> ELSE key

KeyTexts == {Written(w) : w \in KeyWritings}

InitNormalize ==
  /\ pc = "call"
  /\ string \in KeyTexts /\ default_color = None /\ brightness_steps = DEFAULT_BRIGHTNESS_STEPS
  /\ escape_char = "/"
  /\ NoResults

\* FormatCodes._normalize_key(format_key)
NormalizeKey ==
  /\ pc = "call"
  /\ ansi' = [raised |-> "none", value |-> normalize_key(string)]
  /\ pc' = "normalize_key"
  /\ UNCHANGED <<string, default_color, brightness_steps, escape_char, previous, escaped, escaped_again, stripped, tracked, token, console_vars, regex_vars, result_vars>>

NextNormalize == NormalizeKey

SpecNormalize == InitNormalize /\ [][NextNormalize]_vars

\* the canonical key of a writing: `bg:` if it has a background prefix, then `br:` if it has
\* a bright prefix, then the rest in lower case without spaces
Canonical(w) ==
  (IF w.bg = <<>> THEN <<>> ELSE <<"b", "g", ":">>) \o (IF w.br = <<>> THEN <<>> ELSE <<"b", "r", ":">>)
    \o lower(SelectSeq(w.rest, LAMBDA c : c # " "))

\* C15: _normalize_key is canonical: every writing of a key (case, spaces, prefix alias,
\* prefix order) normalizes to the one string [bg:][br:]rest, with bg: in front of br:
C15_NormalizeCanonical ==
  pc = "normalize_key" => \A w \in KeyWritings : Written(w) = string => ansi.value = Canonical(w)

\* BR:BG:red was normalized to bg:br:red
C15_Witness ==
  pc = "normalize_key" /\ string = <<"B", "r", ":", "B", "G", ":", "R", "E", "D">> /\ ansi.value = <<"b", "g", ":", "b", "r", ":", "r", "e", "d">>

(***************************************************************************)
(* The star key: FormatCodes.to_ansi on a directive with the key `*`, then *)
(* on the same text with every `*` written as `_` (no default colour) or   *)
(* as `_|default` (with a default colour)                                  *)
(***************************************************************************)
StarKeyNames == {<<"*">>, <<" ", "*", " ">>, <<"b">>, <<"r", "e", "d">>, <<"_", "b">>, <<"_">>}
\* the key lists with the key `*` in them
StarKeyLists ==
  {keys \in SeqsOf(StarKeyNames, 1, MaxKeys) : \E i \in 1..Len(keys) : "*" \in Range(keys[i])}
    \cup {<<<<"b">>, <<"*">>, <<"r", "e", "d">>>>, <<<<"*">>, <<"b">>, <<"*">>>>}
StarTexts == {Directive(keys, <<>>) \o post : keys \in StarKeyLists, post \in {<<>>, <<"x">>, <<"(", "x", ")">>, <<"x", "[", "b", "]", "y">>}}

InitStar ==
  /\ pc = "call"
  /\ string \in StarTexts /\ default_color \in {None, Gray} /\ brightness_steps = DEFAULT_BRIGHTNESS_STEPS
  /\ escape_char = "/"
  /\ NoResults

\* the text with every `*` written as the keys the documentation gives for it
StarReplaced(s, use_default) ==
  Concat([i \in 1..Len(s) |-> IF s[i] # "*" THEN <<s[i]>> ELSE IF use_default THEN <<"_", "|", "d", "e", "f", "a", "u", "l", "t">> ELSE <<"_">>])

\* FormatCodes.to_ansi called on the text with its `*` keys written out
ToAnsiReplaced ==
  /\ pc = "to_ansi"
  /\ previous' = to_ansi(StarReplaced(string, default_color # None), default_color, brightness_steps)
  /\ pc' = "to_ansi_replaced"
  /\ UNCHANGED <<string, default_color, brightness_steps, escape_char, ansi, escaped, escaped_again, stripped, tracked, token, console_vars, regex_vars, result_vars>>

NextStar == ToAnsi \/ ToAnsiReplaced

SpecStar == InitStar /\ [][NextStar]_vars

\* the keys of the leading directive other than `*` resolve
OtherKeysResolve(s) ==
  \A i \in 1..Len(LeadingKeys(s)) : LeadingKeys(s)[i] = <<"*">> \/ Looked(LeadingKeys(s)[i])

\* C16: a directive with the key `*`, alone or in a pipe list whose other keys resolve,
\* compiles exactly as the directive with `*` written as `_`, and with a default colour as
\* the directive with `*` written as `_|default`
C16_StarKey ==
  (pc = "to_ansi_replaced" /\ OtherKeysResolve(string)) =>
    ansi.raised = "none" /\ previous.raised = "none" /\ ansi.value = previous.value

(***************************************************************************)
(* Escape-marked spans: FormatCodes.to_ansi on a directive whose keys all  *)
(* resolve, followed by `/` or `\` and a span, then on the text of the     *)
(* span alone                                                              *)
(***************************************************************************)
SpanKeyLists == {<<<<"b">>>>, <<<<"r", "e", "d">>>>, <<<<"b">>, <<"r", "e", "d">>>>, <<<<"u">>, <<"b", "g", ":", "b", "l", "u", "e">>>>}
SpanMarkers == {<<"/">>, <<"\\">>}
SpanTextsInside == {<<"x">>, <<"a", " ", "b">>, <<"x", " ", "[", "u", "]", " ", "y">>, <<"[", "u", "]", "(", "y", ")">>, <<"[", "r", "e", "d", "]">>, <<"[", "/", "u", "]">>, <<"[", "q", "]">>, <<"a", "[">>, <<"(", "a", ")">>, <<"[", "b", "|", "q", "]", "z">>}
\* `[keys]`, the marker, and the span in parentheses
MarkedSpan(keys, marker, text) == Directive(keys, <<>>) \o marker \o <<"(">> \o text \o <<")">>
MarkedSpanTexts ==
  {MarkedSpan(keys, marker, text) : keys \in SpanKeyLists, marker \in SpanMarkers, text \in SpanTextsInside}

InitSpan ==
  /\ pc = "call"
  /\ string \in MarkedSpanTexts /\ default_color \in {None, Gray} /\ brightness_steps = DEFAULT_BRIGHTNESS_STEPS
  /\ escape_char = "/"
  /\ NoResults

\* the text between the parenthesis that opens the span and the one that ends the text
SpanTextOf(s) == SubSeq(s, FirstIndex(s, 1, "]") + 3, Len(s) - 1)

\* FormatCodes.to_ansi called on the text of the span alone
ToAnsiSpan ==
  /\ pc = "to_ansi"
  /\ previous' = to_ansi(SpanTextOf(string), default_color, brightness_steps)
  /\ pc' = "to_ansi_span"
  /\ UNCHANGED <<string, default_color, brightness_steps, escape_char, ansi, escaped, escaped_again, stripped, tracked, token, console_vars, regex_vars, result_vars>>

NextSpan == ToAnsi \/ ToAnsiSpan

SpecSpan == InitSpan /\ [][NextSpan]_vars

\* C17: for a directive whose keys all resolve, followed by one `/` or `\` and a span, to_ansi
\* emits the codes of the directive, `(`, the span text compiled as to_ansi compiles it on
\* its own (less the default-colour prefix), and `)`: no marker, no reset behind the span
C17_EscapedSpan ==
  pc = "to_ansi_span" =>
    /\ ansi.raised = "none" /\ previous.raised = "none"
    /\ BodyOf(ansi) = SGRs(LeadingKeys(string)) \o <<"(">> \o BodyOf(previous) \o <<")">>

(***************************************************************************)
(* Properties of escaping directives that do not resolve                   *)
(***************************************************************************)
\* the leading directive of the text has a key that does not resolve
HasUnresolvedKey(s) == \E i \in 1..Len(LeadingKeys(s)) : ~Resolves(LeadingKeys(s)[i])

\* C18: escape leaves a directive with an unresolved key exactly as it is written: brackets,
\* keys, a `/` or `\` behind the closing bracket and the parentheses of a span all unchanged
\* (the texts looked at hold no second directive, so nothing inside the span is escaped)
C18_InvalidUnchanged ==
  (pc = "escape" /\ escaped.raised = "none" /\ OneDirective(string) /\ HasUnresolvedKey(string)) =>
    escaped.value = string

(***************************************************************************)
(* The tokenizer: _PATTERNS.formatting searched in, and FormatCodes.to_ansi *)
(* called on, a directive with a span of nested parentheses, a directive   *)
(* of nested brackets, and a span with parentheses inside quotes           *)
(***************************************************************************)
\* deepest nesting of the parentheses of a span and of the brackets of a directive
MaxDepth == 3

RECURSIVE NestTexts(_, _, _, _)
\* the cores wrapped d times in the pair of brackets, with or without text around each level
NestTexts(open, close, d, cores) ==
  IF d = 0 THEN cores
  ELSE {<<open>> \o pre \o n \o post \o <<close>> :
          pre \in {<<>>, <<"a">>}, post \in {<<>>, <<"c">>}, n \in NestTexts(open, close, d - 1, cores)}

\* `[b]` and a span nested 1 to MaxDepth deep, with and without directives inside
SpanNestTexts ==
  UNION {{<<"[", "b", "]">> \o span : span \in NestTexts("(", ")", d, {<<"x">>, <<"[", "u", "]", "y">>, <<"[", "u", "]", "(", "y", ")">>})} : d \in 1..MaxDepth}
\* a directive nested 1 to MaxDepth deep, and a character of text
BracketNestTexts ==
  UNION {{directive \o <<"x">> : directive \in NestTexts("[", "]", d, {<<"b">>, <<"b", "|", "u">>})} : d \in 1..MaxDepth}
\* `[b]` and a span with a quoted substring
QuoteTexts ==
  {<<"[", "b", "]", "(">> \o pre \o q \o inner \o q \o post \o <<")">> :
     pre \in {<<>>, <<"s", "a", "y", " ">>}, q \in {<<"\"">>, <<"'">>}, inner \in {<<")">>, <<"(">>, <<"x">>, <<"(", ")">>, <<")", " ", "(">>}, post \in {<<>>, <<" ", "n", "o", "w">>}}

InitTokenizer ==
  /\ pc = "call"
  /\ string \in SpanNestTexts \cup BracketNestTexts \cup QuoteTexts
  /\ default_color = None /\ brightness_steps = DEFAULT_BRIGHTNESS_STEPS
  /\ escape_char = "/"
  /\ NoResults

\* _PATTERNS.formatting.search(string): the leftmost match
formatting_search(s) ==
  IF \E p \in 1..Len(s) : MatchAt(s, p).ok
  THEN MatchAt(s, CHOOSE p \in 1..Len(s) : MatchAt(s, p).ok /\ \A q \in 1..(p - 1) : ~MatchAt(s, q).ok)
  ELSE NoMatch

\* _PATTERNS.formatting.search(string)
Search ==
  /\ pc = "call"
  /\ token' = formatting_search(string)
  /\ pc' = "search"
  /\ UNCHANGED <<string, default_color, brightness_steps, escape_char, ansi, previous, escaped, escaped_again, stripped, tracked, console_vars, regex_vars, result_vars>>

NextTokenizer == Search \/ ToAnsi

SpecTokenizer == InitTokenizer /\ [][NextTokenizer]_vars

\* the match is the directive `[b]` with the whole rest of the text as its span
WholeSpanMatched ==
  /\ token.ok /\ token.start = 1 /\ token.group1 = <<"b">>
  /\ token.has3 /\ token.group3 = SubSeq(string, 5, Len(string) - 1)
  /\ token.end = Len(string) + 1

\* the compiled text is bold up to its end, where the reset of bold comes
ResetBehindSpan ==
  /\ ansi.raised = "none" /\ startswith(ansi.value, ANSI_SEQ_1(1))
  /\ Len(ansi.value) >= 5 /\ Drop(ansi.value, Len(ansi.value) - 5) = ANSI_SEQ_1(22)

\* C19: the span ends at the `)` that balances its `(` at every nesting depth, with or without
\* directives inside, and the resets come behind that `)`; a directive ends at the `]`
\* that balances its `[` at every nesting depth
C19_BalancedNesting ==
  /\ (pc = "search" /\ string \in SpanNestTexts) => WholeSpanMatched
  /\ (pc = "to_ansi" /\ string \in SpanNestTexts) => ResetBehindSpan
  /\ (pc = "search" /\ string \in BracketNestTexts) =>
       /\ token.ok /\ token.start = 1 /\ token.end = Len(string)
       /\ token.group1 = SubSeq(string, 2, Len(string) - 2)

\* C20: parentheses inside a single- or double-quoted substring of the span do not count:
\* the span is the whole text up to the last `)`, and the reset comes behind it
C20_QuotedParentheses ==
  /\ (pc = "search" /\ string \in QuoteTexts) => WholeSpanMatched
  /\ (pc = "to_ansi" /\ string \in QuoteTexts) => ResetBehindSpan

(***************************************************************************)
(* Unclosed groups: _PATTERNS.formatting searched in, and                  *)
(* FormatCodes.to_ansi called on, a text with a `[` that no `]` closes,    *)
(* and a directive followed by a `(` that no `)` closes                    *)
(***************************************************************************)
\* what stands before the unclosed `[`, what it compiles to, and how many SGR sequences that has
UnclosedBefore ==
  {[text |-> <<>>, compiled |-> <<>>, codes |-> 0],
   [text |-> <<"a", " ">>, compiled |-> <<"a", " ">>, codes |-> 0],
   [text |-> <<"[", "u", "]">>, compiled |-> <<ESC, "[", "4", "m">>, codes |-> 1],
   [text |-> <<"[", "u", "]", "(", "x", ")">>, compiled |-> <<ESC, "[", "4", "m", "x", ESC, "[", "2", "4", "m">>, codes |-> 2]}
\* what stands between the unclosed `[` and the end of the line or the next directive
UnclosedBodies == {<<>>, <<"b">>, <<"b", "|", "r", "e", "d">>, <<" ", "b", " ">>, <<"/", "b">>, <<"*">>, <<"b", "(", "x", ")">>, <<"[", "b">>}
\* what follows: nothing, or a directive that is closed
UnclosedAfter == {[text |-> <<>>, codes |-> 0], [text |-> <<"[", "b", "]", "x">>, codes |-> 1]}
UnclosedBracketTexts ==
  {pre.text \o <<"[">> \o body \o post.text : pre \in UnclosedBefore, body \in UnclosedBodies, post \in UnclosedAfter}

UnclosedSpanKeys == {<<<<"b">>>>, <<<<"b">>, <<"r", "e", "d">>>>, <<<<"q">>>>}
UnclosedSpanMarkers == {<<>>, <<"/">>, <<"\\">>}
\* what stands behind the unclosed `(`, and what it compiles to
UnclosedSpanBodies ==
  {[text |-> <<>>, compiled |-> <<>>],
   [text |-> <<"x">>, compiled |-> <<"x">>],
   [text |-> <<"(", "x", ")">>, compiled |-> <<"(", "x", ")">>],
   [text |-> <<"x", "(", "y", ")", "z">>, compiled |-> <<"x", "(", "y", ")", "z">>],
   [text |-> <<"[", "u", "]">>, compiled |-> <<ESC, "[", "4", "m">>],
   [text |-> <<"x", "[", "u", "]", "(", "y", ")">>, compiled |-> <<"x", ESC, "[", "4", "m", "y", ESC, "[", "2", "4", "m">>]}
UnclosedSpanTexts ==
  {Directive(keys, <<>>) \o marker \o <<"(">> \o body.text :
     keys \in UnclosedSpanKeys, marker \in UnclosedSpanMarkers, body \in UnclosedSpanBodies}

InitUnclosed ==
  /\ pc = "call"
  /\ string \in UnclosedBracketTexts \cup UnclosedSpanTexts
  /\ default_color = None /\ brightness_steps = DEFAULT_BRIGHTNESS_STEPS
  /\ escape_char = "/"
  /\ NoResults

NextUnclosed == Search \/ ToAnsi

SpecUnclosed == InitUnclosed /\ [][NextUnclosed]_vars

\* the number of ESC characters of a text
EscCount(text) == Cardinality({i \in 1..Len(text) : text[i] = ESC})

\* the `[` at position p is in no match, it is emitted as it is behind what the text before it
\* compiles to, and the compiled text has `codes` SGR sequences
BracketFailsSoft(p, compiled, codes) ==
  /\ pc = "search" => ~(token.ok /\ token.start <= p /\ p < token.end)
  /\ pc = "to_ansi" =>
       /\ ansi.raised = "none"
       /\ startswith(ansi.value, compiled \o <<"[">>)
       /\ EscCount(ansi.value) = codes

\* a `[` that no `]` closes starts no match and is emitted as literal text, with no SGR
\* sequence and no error
UnclosedBracketFailsSoft ==
  \A pre \in UnclosedBefore, body \in UnclosedBodies, post \in UnclosedAfter :
    string = pre.text \o <<"[">> \o body \o post.text =>
      BracketFailsSoft(Len(pre.text) + 1, pre.compiled, pre.codes + post.codes)

\* the directive in front of an unclosed `(` is not matched and is emitted as it is written
SpanDirectiveLiteral(keys, marker, body) ==
  /\ pc = "search" => ~(token.ok /\ token.start = 1)
  /\ pc = "to_ansi" =>
       /\ ansi.raised = "none"
       /\ ansi.value = Directive(keys, <<>>) \o marker \o <<"(">> \o body.compiled

\* the directive in front of an unclosed `(` is matched on its own, without marker and span:
\* its codes are emitted when all its keys resolve, no reset follows, and the marker, the `(`
\* and the text behind it are compiled as the text they are
SpanDirectiveAlone(keys, marker, body) ==
  /\ pc = "search" =>
       /\ token.ok /\ token.start = 1 /\ token.end = Len(Directive(keys, <<>>)) + 1
       /\ token.group2 = <<>> /\ ~token.has3
  /\ pc = "to_ansi" =>
       /\ ansi.raised = "none"
       /\ ansi.value = (IF AllResolve(keys) THEN SGRs(keys) ELSE Directive(keys, <<>>))
                         \o marker \o <<"(">> \o body.compiled

\* C21 as claimed: when a `[` has no closing `]`, or the `(` opened directly behind a directive
\* has no matching `)`, no directive is matched there, the bracket text is emitted as literal
\* text without any SGR sequence for it, and nothing is raised
C21_UnclosedLiteral ==
  /\ UnclosedBracketFailsSoft
  /\ \A keys \in UnclosedSpanKeys, marker \in UnclosedSpanMarkers, body \in UnclosedSpanBodies :
       string = Directive(keys, <<>>) \o marker \o <<"(">> \o body.text =>
         SpanDirectiveLiteral(keys, marker, body)

\* C21, amended: a `[` that no `]` closes starts no match and is emitted as literal text with no
\* SGR sequence for it; when the `(` opened directly behind a directive has no matching `)`
\* only the span fails to match: the directive is matched on its own and compiled as a
\* directive without span, and the `(` is emitted as literal text; nothing is raised
C21_UnclosedFailSoft ==
  /\ UnclosedBracketFailsSoft
  /\ \A keys \in UnclosedSpanKeys, marker \in UnclosedSpanMarkers, body \in UnclosedSpanBodies :
       string = Directive(keys, <<>>) \o marker \o <<"(">> \o body.text =>
         SpanDirectiveAlone(keys, marker, body)

\* `[b](x` was compiled: bold is switched on and `(x` is text
C21_Witness ==
  /\ pc = "to_ansi" /\ string = <<"[", "b", "]", "(", "x">>
  /\ ansi.raised = "none" /\ ansi.value = <<ESC, "[", "1", "m", "(", "x">>

(***************************************************************************)
(* Lines: FormatCodes.to_ansi called on a text of two lines, then on each  *)
(* of its lines                                                            *)
(***************************************************************************)
\* the lines: text, directives, and the pieces of a directive that a line break cuts
LineTexts ==
  {<<>>, <<"x">>, <<"[", "b", "]", "y">>, <<"[", "b", "]", "(", "y", ")", " ", "z">>, <<"[">>, <<"[", "b">>, <<"[", "b", "|">>, <<"*", "]", "x">>, <<"u", "]">>, <<"[", "*", "]">>, <<"[", "b", "]", "(", "x">>, <<"y", ")">>, <<"(", "z", ")">>}
TwoLineTexts == {a \o <<"\n">> \o b : a \in LineTexts, b \in LineTexts}

InitLines ==
  /\ pc = "call"
  /\ string \in TwoLineTexts
  /\ default_color = None /\ brightness_steps = DEFAULT_BRIGHTNESS_STEPS
  /\ escape_char = "/"
  /\ NoResults

\* FormatCodes.to_ansi(line, default_color, brightness_steps) for every line of the text
ToAnsiEachLine ==
  /\ pc = "to_ansi"
  /\ line_ansi' = [i \in 1..Len(split(string, "\n")) |-> to_ansi(split(string, "\n")[i], default_color, brightness_steps)]
  /\ pc' = "to_ansi_each_line"
  /\ UNCHANGED <<string, default_color, brightness_steps, escape_char, ansi, previous, escaped, escaped_again, stripped, tracked, token, split_string, restored, console_vars, regex_vars>>

NextLines == ToAnsi \/ ToAnsiEachLine

SpecLines == InitLines /\ [][NextLines]_vars

\* the number of line breaks of a text
LineBreaks(text) == Cardinality({i \in 1..Len(text) : text[i] = "\n"})

\* C22: with no default colour, to_ansi(a + "\n" + b) is to_ansi(a) + "\n" + to_ansi(b) for
\* all a and b without line breaks, and the compiled text has as many line breaks as the text
C22_LineIndependence ==
  pc = "to_ansi_each_line" =>
    /\ ansi.raised = "none" /\ \A i \in 1..Len(line_ansi) : line_ansi[i].raised = "none"
    /\ ansi.value = JoinWith(<<"\n">>, [i \in 1..Len(line_ansi) |-> line_ansi[i].value])
    /\ LineBreaks(ansi.value) = LineBreaks(string)

(***************************************************************************)
(* Resolving: FormatCodes._get_replacement on one key, without and with a  *)
(* default colour, and FormatCodes.to_ansi on the directive of that key    *)
(***************************************************************************)
\* every key of ANSI.CODES_MAP
TableKeys == UNION {e.keys : e \in CODES_MAP}

\* keys by what they are: `with` says what the key is when a default colour is set (run is the
\* length of a modifier), `rgb` the colour the key is as an RGB or HEX literal
NoCase == [with |-> "", run |-> 0, rgb |-> <<>>]
OrderCases ==
  {[key |-> <<"d", "e", "f", "a", "u", "l", "t">>] @@ [NoCase EXCEPT !.with = "default"],
   [key |-> <<"b", "g", ":", "d", "e", "f", "a", "u", "l", "t">>] @@ [NoCase EXCEPT !.with = "bg:default"],
   [key |-> <<"l">>] @@ [NoCase EXCEPT !.with = "lighten", !.run = 1],
   [key |-> <<"+">>] @@ [NoCase EXCEPT !.with = "lighten", !.run = 1],
   [key |-> <<"l", "l">>] @@ [NoCase EXCEPT !.with = "lighten", !.run = 2],
   [key |-> <<"b", "g", ":", "l">>] @@ [NoCase EXCEPT !.with = "bg:lighten", !.run = 1],
   [key |-> <<"d">>] @@ [NoCase EXCEPT !.with = "darken", !.run = 1],
   [key |-> <<"-">>] @@ [NoCase EXCEPT !.with = "darken", !.run = 1],
   [key |-> <<"d", "d">>] @@ [NoCase EXCEPT !.with = "darken", !.run = 2],
   [key |-> <<"d", "d", "d">>] @@ [NoCase EXCEPT !.with = "darken", !.run = 3, !.rgb = <<221, 221, 221>>],
   [key |-> <<"b", "g", ":", "d">>] @@ [NoCase EXCEPT !.with = "bg:darken", !.run = 1],
   [key |-> <<"2", "5", "5", ",", "0", ",", "1", "3", "6">>] @@ [NoCase EXCEPT !.rgb = <<255, 0, 136>>],
   [key |-> <<"#", "7", "8", "f">>] @@ [NoCase EXCEPT !.rgb = <<119, 136, 255>>],
   [key |-> <<"7", "8", "f">>] @@ [NoCase EXCEPT !.rgb = <<119, 136, 255>>],
   [key |-> <<"0", "x", "7", "7", "8", "8", "f", "f">>] @@ [NoCase EXCEPT !.rgb = <<119, 136, 255>>],
   [key |-> <<"q">>] @@ NoCase,
   [key |-> <<"d", "i", "m", "m">>] @@ NoCase}
    \cup {[key |-> k] @@ NoCase : k \in TableKeys \ {<<"d">>}}
OrderKeys == {c.key : c \in OrderCases}

\* the writings of an RGB literal: the prefix, the wrapping, the separator and the channels
RgbPrefixes == {<<>>, <<"b", "g", ":">>, <<"B", "G", ":", " ">>, <<"b", "a", "c", "k", "g", "r", "o", "u", "n", "d", ":">>}
RgbWraps == {[open |-> <<>>, close |-> <<>>], [open |-> <<"r", "g", "b", "(">>, close |-> <<")">>], [open |-> <<"(">>, close |-> <<")">>], [open |-> <<"R", "G", "B", "(", " ">>, close |-> <<" ", ")">>]}
RgbSeparators == {<<",">>, <<",", " ">>, <<" ", ",", " ">>, <<" ">>}
RgbChannels ==
  {<<<<"2", "5", "5">>, <<"0">>, <<"1", "3", "6">>>>, <<<<"0">>, <<"0">>, <<"0">>>>, <<<<"2", "5", "5">>, <<"2", "5", "5">>, <<"2", "5", "5">>>>, <<<<"2", "5", "6">>, <<"0">>, <<"0">>>>, <<<<"0">>, <<"2", "5", "6">>, <<"0">>>>,
   <<<<"0">>, <<"0">>, <<"2", "5", "6">>>>, <<<<"1">>, <<"2">>, <<"3">>>>, <<<<"9", "9", "9">>, <<"0">>, <<"0">>>>, <<<<"0", "0", "7">>, <<"0", "1", "7">>, <<"2", "5", "5">>>>, <<<<"1", "0", "0", "0">>, <<"0">>, <<"0">>>>}
RgbWritings == [prefix : RgbPrefixes, wrap : RgbWraps, sep : RgbSeparators, channels : RgbChannels]
\* the key of a writing
RgbKey(w) ==
  w.prefix \o w.wrap.open \o w.channels[1] \o w.sep \o w.channels[2] \o w.sep \o w.channels[3] \o w.wrap.close
RgbKeys == {RgbKey(w) : w \in RgbWritings}

ResolveColors == {None, Gray, <<255, 0, 0>>}

InitResolve ==
  /\ pc = "call"
  /\ string \in {<<"[">> \o key \o <<"]">> : key \in OrderKeys \cup RgbKeys}
  /\ default_color \in ResolveColors /\ brightness_steps = DEFAULT_BRIGHTNESS_STEPS
  /\ escape_char = "/"
  /\ NoResults

\* FormatCodes.to_ansi on the directive, called where no default colour is given
ToAnsiDirective == default_color = None /\ ToAnsi

NextResolve == GetReplacement \/ ToAnsiDirective

SpecResolve == InitResolve /\ [][NextResolve]_vars

\* the resolver returned the sequence or text `value`
Resolved(value) == ansi = [raised |-> "none", value |-> value]

\* the lightness change of a modifier case
ChangeOf(c) ==
  LightnessChange(IF c.with \in {"lighten", "bg:lighten"} THEN 1 ELSE -1, brightness_steps, c.run)

\* what a key that is a default-colour key or a modifier resolves to under a default colour
DefaultColorCode(c) ==
  CASE c.with = "default" -> SEQ_COLOR(default_color)
    [] c.with = "bg:default" -> SEQ_BG_COLOR(default_color)
    [] c.with \in {"lighten", "darken"} -> SEQ_COLOR(adjust_lightness(default_color, ChangeOf(c)))
    [] c.with \in {"bg:lighten", "bg:darken"} -> SEQ_BG_COLOR(adjust_lightness(default_color, ChangeOf(c)))

\* what a key resolves to when the table is looked up first
TableFirst(c) ==
  IF c.key \in TableKeys THEN ANSI_SEQ_1(codes_map_get(c.key))
  ELSE IF default_color # None /\ c.with # "" THEN DefaultColorCode(c)
  ELSE IF c.rgb # <<>> THEN SEQ_COLOR(c.rgb)
  ELSE c.key

\* what a key resolves to when the default-colour keys and modifiers are looked up first
DefaultFirst(c) ==
  IF default_color # None /\ c.with # "" THEN DefaultColorCode(c)
  ELSE IF c.key \in TableKeys THEN ANSI_SEQ_1(codes_map_get(c.key))
  ELSE IF c.rgb # <<>> THEN SEQ_COLOR(c.rgb)
  ELSE c.key

ChannelValues(w) == [i \in 1..3 |-> StrToInt(w.channels[i], 10)]
\* all three channels are in [0, 255]
InByteRange(w) == \A i \in 1..3 : ChannelValues(w)[i] \in 0..255
\* the 24-bit sequence of a writing: 48;2;R;G;B with the prefix, 38;2;R;G;B without
RgbCode(w) == IF w.prefix # <<>> THEN SEQ_BG_COLOR(ChannelValues(w)) ELSE SEQ_COLOR(ChannelValues(w))

\* the key of the writing resolves to its 24-bit sequence if and only if its channels are in
\* range, and is unresolved, the directive staying literal, otherwise
RgbLiteralResolves(w) ==
  /\ pc = "get_replacement" => Resolved(IF InByteRange(w) THEN RgbCode(w) ELSE RgbKey(w))
  /\ pc = "to_ansi" =>
       /\ ansi.raised = "none"
       /\ ansi.value = IF InByteRange(w) THEN RgbCode(w) ELSE string

\* C24 as claimed: three integers, with or without the bg prefix, bare or wrapped in rgb(...)
\* or parentheses, separated by commas or by spaces, resolve to the 24-bit sequence if and
\* only if all three are in [0, 255]; with a value above 255 the directive stays literal
C24_RgbLiteral ==
  \A w \in RgbWritings : KeyOf(string) = RgbKey(w) => RgbLiteralResolves(w)

\* C24, amended: the same for three integers separated by commas, with or without spaces
\* around the commas
C24_RgbCommaLiteral ==
  \A w \in RgbWritings : (KeyOf(string) = RgbKey(w) /\ "," \in Range(w.sep)) => RgbLiteralResolves(w)

\* `bg:rgb(255, 0, 136)` was resolved to the background sequence
C24_Witness ==
  /\ pc = "get_replacement" /\ KeyOf(string) = <<"b", "g", ":", "r", "g", "b", "(", "2", "5", "5", ",", " ", "0", ",", " ", "1", "3", "6", ")">>
  /\ Resolved(<<ESC, "[", "4", "8", ";", "2", ";", "2", "5", "5", ";", "0", ";", "1", "3", "6", "m">>)

(***************************************************************************)
(* The reset plan: _PATTERNS.formatting.sub(_ReplaceKeysHelper(...), line) *)
(* as to_ansi calls it, without and with a default colour, and             *)
(* FormatCodes.to_ansi itself, on a directive with the auto-reset span (y) *)
(***************************************************************************)
\* the writings of the background prefix, alone and with the bright prefix
BgPrefixWritings == {<<"b", "g", ":">>, <<"B", "G", ":">>, <<"b", "a", "c", "k", "g", "r", "o", "u", "n", "d", ":">>, <<"b", "g", ":", " ">>, <<"b", "g", " ", ":">>}
BgBrightWritings == {<<"b", "g", ":", "b", "r", ":">>, <<"b", "r", ":", "b", "g", ":">>, <<"B", "G", ":", "B", "R", ":">>, <<"b", "a", "c", "k", "g", "r", "o", "u", "n", "d", ":", "b", "r", "i", "g", "h", "t", ":">>, <<"b", "r", "i", "g", "h", "t", ":", "b", "g", ":">>}
\* the writings of a colour: console colour names, HEX and RGB literals
NamedWritings == {<<"r", "e", "d">>, <<"R", "e", "d">>, <<"B", "L", "U", "E">>, <<"c", "y", "a", "n">>}
LiteralWritings == {<<"#", "F", "6", "7">>, <<"f", "6", "7">>, <<"0", "x", "7", "7", "8", "8", "F", "F">>, <<"r", "g", "b", "(", "1", ",", "2", ",", "3", ")">>, <<"1", ",", "2", ",", "3">>, <<"(", "2", "5", "5", ",", " ", "0", ",", " ", "1", "3", "6", ")">>}
\* the background keys, bright or not
BgKeys ==
  {[bright |-> FALSE, key |-> p \o c] : p \in BgPrefixWritings, c \in NamedWritings \cup LiteralWritings}
    \cup {[bright |-> TRUE, key |-> p \o c] : p \in BgBrightWritings, c \in NamedWritings}
\* the foreground keys; `default` and the modifiers are colours under a default colour only
FgKeys ==
  {[needs_default |-> FALSE, key |-> p \o c] : p \in {<<>>, <<"b", "r", ":">>, <<"b", "r", "i", "g", "h", "t", ":">>, <<"B", "R", ":">>}, c \in NamedWritings}
    \cup {[needs_default |-> FALSE, key |-> c] : c \in LiteralWritings}
    \cup {[needs_default |-> TRUE, key |-> c] : c \in {<<"d", "e", "f", "a", "u", "l", "t">>, <<"D", "E", "F", "A", "U", "L", "T">>, <<"l">>, <<"l", "l">>, <<"+">>, <<"d">>, <<"d", "d">>, <<"-">>}}
\* the keys of the directives with more than one key
PlanKeyNames == {<<"b">>, <<"d", "i", "m">>, <<"u">>, <<"d", "u">>, <<"i">>, <<"r", "e", "d">>, <<"b", "l", "u", "e">>, <<"b", "g", ":", "r", "e", "d">>, <<"b", "g", ":", "b", "l", "u", "e">>, <<"_", "b">>}
PlanKeyLists == SeqsOf(PlanKeyNames, 1, MaxKeys) \cup {<<<<"b", "g", ":", "r", "e", "d">>, <<"b">>, <<"b", "g", ":", "b", "l", "u", "e">>, <<"d", "i", "m">>>>, <<<<"b">>, <<"r", "e", "d">>, <<"u">>>>}

\* `[keys](y)`
AutoReset(keys) == Directive(keys, <<<<"(", "y", ")">>>>)
ResetPlanTexts ==
  {AutoReset(<<c.key>>) : c \in BgKeys \cup FgKeys} \cup {AutoReset(keys) : keys \in PlanKeyLists}

InitResetPlan ==
  /\ pc = "call"
  /\ string \in ResetPlanTexts
  /\ default_color \in {None, Gray} /\ brightness_steps = DEFAULT_BRIGHTNESS_STEPS
  /\ escape_char = "/"
  /\ NoResults

\* _PATTERNS.formatting.sub(_ReplaceKeysHelper(cls, use_default, default_color,
\* brightness_steps), line), the call to_ansi makes for a line once default_color is an rgba
\* colour or None
ReplaceKeys ==
  /\ pc = "call"
  /\ ansi' = replacement_result(formatting_sub(string, 1, default_color, brightness_steps))
  /\ pc' = "replace_keys"
  /\ UNCHANGED <<string, default_color, brightness_steps, escape_char, previous, escaped, escaped_again, stripped, tracked, token, console_vars, regex_vars, result_vars>>

NextResetPlan == ReplaceKeys \/ ToAnsiDirective

SpecResetPlan == InitResetPlan /\ [][NextResetPlan]_vars

\* the directive was compiled
Replaced == pc \in {"replace_keys", "to_ansi"} /\ ansi.raised = "none"
\* the text behind the span text `y`: the reset plan
PlanOf(value) == Drop(value, FirstIndex(value, 1, "y"))
\* the foreground reset: the default colour where one is active, SGR 39 otherwise
ForegroundReset == IF default_color = None THEN Sgr(39) ELSE SEQ_COLOR(default_color)

\* C25: a key with the bg prefix that resolves to a named, RGB or HEX colour contributes the
\* background reset alone when it is not bright, and the background reset followed by the
\* foreground reset (the default colour where one is active) when it has the br prefix too
C25_BackgroundResets ==
  Replaced =>
    \A c \in BgKeys : (string = AutoReset(<<c.key>>) /\ Looked(c.key)) =>
       PlanOf(ansi.value) = IF c.bright THEN Sgr(49) \o ForegroundReset ELSE Sgr(49)

\* C26: a key without bg prefix that resolves to a foreground colour (a console colour name in
\* any letter case, its bright variant, an RGB or HEX literal, `default`, a modifier)
\* contributes one foreground reset: the default colour where one is active, SGR 39 otherwise
C26_ForegroundResets ==
  Replaced =>
    \A c \in FgKeys : (string = AutoReset(<<c.key>>) /\ Looked(c.key) /\ (c.needs_default => default_color # None)) =>
       PlanOf(ansi.value) = ForegroundReset


\* the reset a key of the key lists is to contribute, <<>> for a key without reset
PlanReset(k) ==
  CASE k \in {<<"b">>, <<"d", "i", "m">>} -> Sgr(22)
    [] k \in {<<"u">>, <<"d", "u">>} -> Sgr(24)
    [] k = <<"i">> -> Sgr(23)
    [] k \in {<<"r", "e", "d">>, <<"b", "l", "u", "e">>} -> ForegroundReset
    [] k \in {<<"b", "g", ":", "r", "e", "d">>, <<"b", "g", ":", "b", "l", "u", "e">>} -> Sgr(49)
    [] k = <<"_", "b">> -> <<>>
\* the resets of the keys in key order, keys without reset left out
PlanResets(keys) == SelectSeq([i \in 1..Len(keys) |-> PlanReset(keys[i])], LAMBDA r : r # <<>>)

RECURSIVE Deduplicated(_)
\* the list without the entries that occur earlier in it
Deduplicated(list) ==
  IF list = <<>> THEN <<>>
  ELSE LET front == Deduplicated(SubSeq(list, 1, Len(list) - 1))
       IN IF list[Len(list)] \in Range(front) THEN front ELSE Append(front, list[Len(list)])

\* C27: the reset codes behind an auto-reset span are deduplicated (no reset sequence twice
\* in one plan) and stand in the order of the keys that produced them; a key whose reset
\* does not resolve to an SGR sequence contributes nothing
C27_ResetPlanDeduplicated ==
  Replaced =>
    \A keys \in PlanKeyLists : string = AutoReset(keys) =>
       PlanOf(ansi.value) = Concat(Deduplicated(PlanResets(keys)))

(***************************************************************************)
(* The amount a default-colour modifier changes the lightness by           *)
(***************************************************************************)
\* the lightness a run of n modifiers with p brightness steps gives a colour of lightness l
\* when each percent is taken of the range that remains: l + (n * p / 100) * (100 - l) for
\* lighten and l - (n * p / 100) * l for darken, truncated to an integer
RelativeLightness(l, lighten, n, p) ==
  IF lighten THEN l + (n * p * (100 - l)) \div 100 ELSE l - ((n * p * l + 99) \div 100)

\* the colour of that lightness with the hue and saturation of the default colour
RelativeColour(color, lighten, n, p) ==
  hsl_to_rgb(<<rgb_to_hsl(color)[1], rgb_to_hsl(color)[2], RelativeLightness(rgb_to_hsl(color)[3], lighten, n, p)>>)

\* C28: for a modifier run of length n with brightness steps p and n * p <= 100 the resolver
\* emits the default colour with its lightness L moved to L + (n * p / 100) * (100 - L) for
\* lighten and to L - (n * p / 100) * L for darken, truncated to an integer
C28_RelativeLightness ==
  (pc = "get_replacement" /\ RunLength(string) * brightness_steps <= 100) =>
    /\ ansi.raised = "none"
    /\ ColourOf(SgrParams(ansi.value)) = RelativeColour(default_color, IsLighten(string), RunLength(string), brightness_steps)

(***************************************************************************)
(* Stripping leaves plain text                                             *)
(***************************************************************************)
\* C29: the clean string remove_ansi returns holds no ANSI escape sequence, and remove_ansi
\* returns it unchanged: remove_ansi(remove_ansi(s)) = remove_ansi(s)
C29_StripLeavesPlainText ==
  pc = "remove_ansi" =>
    /\ ~HasAnsiSeq(stripped.clean)
    /\ remove_ansi(stripped.clean, FALSE, FALSE).clean = stripped.clean

(***************************************************************************)
(* Reinsertion: FormatCodes.remove_ansi with get_removals=True on a string *)
(* with escape sequences and no line break, then                           *)
(* Console._add_back_removed_parts on the clean string split into parts    *)
(***************************************************************************)
\* most parts the clean string is split into
MaxParts == 3

\* the IndexError of a list index out of range
INDEX_ERROR == "IndexError"

RECURSIVE cumulative_pos(_, _)
\* cumulative_pos of Console._add_back_removed_parts, grown from the list `sums` by the loop
\* that appends cumulative_pos[-1] + length for each part; cumulative_pos[i + 1] here is
\* the code's cumulative_pos[i]
cumulative_pos(sums, parts) ==
  IF parts = <<>> THEN sums
  ELSE cumulative_pos(Append(sums, sums[Len(sums)] + Len(parts[1])), Tail(parts))

RECURSIVE find_string_part(_, _, _, _)
\* Console._find_string_part(pos, cumulative_pos) from its left and right on, which start
\* as 0 and len(cumulative_pos) - 1; a 0-based index
find_string_part(pos, sums, left, right) ==
  IF ~(left < right) THEN left
  ELSE IF sums[(left + right) \div 2 + 1] <= pos /\ pos < sums[(left + right) \div 2 + 2]
       THEN (left + right) \div 2
  ELSE IF pos < sums[(left + right) \div 2 + 1]
       THEN find_string_part(pos, sums, left, (left + right) \div 2)
  ELSE find_string_part(pos, sums, (left + right) \div 2 + 1, right)

\* "".join([part[:adjusted_pos], removal, part[adjusted_pos:]])
inserted_at(part, adjusted_pos, removal) ==
  SubSeq(part, 1, Min2(adjusted_pos, Len(part))) \o removal \o SubSeq(part, Min2(adjusted_pos, Len(part)) + 1, Len(part))

RECURSIVE add_back_from(_, _, _, _)
\* the body of the loop over the removals for a position inside the parts, i being the
\* 0-based index _find_string_part returned
add_back_into(result, offset_adjusts, sums, removals, i) ==
  IF i + 1 > Len(result) THEN [raised |-> INDEX_ERROR, value |-> <<>>]
  ELSE add_back_from([result EXCEPT ![i + 1] = inserted_at(@, (removals[1][1] - sums[i + 1]) + offset_adjusts[i + 1], removals[1][2])],
                     [offset_adjusts EXCEPT ![i + 1] = @ + Len(removals[1][2])],
                     sums, Tail(removals))

\* the loop of Console._add_back_removed_parts over the removals that are left
add_back_from(result, offset_adjusts, sums, removals) ==
  IF removals = <<>> THEN [raised |-> "none", value |-> result]
  ELSE IF removals[1][1] >= sums[Len(sums)]
       THEN IF result = <<>> THEN [raised |-> INDEX_ERROR, value |-> <<>>]
            ELSE add_back_from([result EXCEPT ![Len(result)] = @ \o removals[1][2]], offset_adjusts, sums, Tail(removals))
  ELSE add_back_into(result, offset_adjusts, sums, removals, find_string_part(removals[1][1], sums, 0, Len(sums) - 1))

\* Console._add_back_removed_parts(split_string, removals): the list it returns, or the
\* IndexError of result[last_idx] with last_idx = -1 in an empty list
add_back_removed_parts(parts, removals) ==
  add_back_from(parts, [i \in 1..Len(parts) |-> 0], cumulative_pos(<<0>>, parts), removals)

\* the lists of n parts that the cut positions behind the first n - 1 parts give
PartsAt(clean, n, cuts) ==
  [i \in 1..n |-> SubSeq(clean, (IF i = 1 THEN 0 ELSE cuts[i - 1]) + 1, IF i = n THEN Len(clean) ELSE cuts[i])]

\* every list of at most MaxParts parts, parts of length zero among them, whose
\* concatenation is the clean string; no parts at all for the empty string
Splittings(clean) ==
  (IF clean = <<>> THEN {<<>>} ELSE {}) \cup
  UNION {{PartsAt(clean, n, cuts) : cuts \in {c \in [1..(n - 1) -> 0..Len(clean)] : \A i \in 1..(n - 2) : c[i] <= c[i + 1]}} : n \in 1..MaxParts}

ReinsertTexts == {t \in AnsiTexts : "\n" \notin Range(t)}

InitReinsert ==
  /\ pc = "call"
  /\ string \in ReinsertTexts /\ default_color = None /\ brightness_steps = DEFAULT_BRIGHTNESS_STEPS
  /\ escape_char = "/"
  /\ NoResults

\* Console._add_back_removed_parts(parts, removals) for a splitting of the clean string
AddBackRemovedParts ==
  /\ pc = "remove_ansi_tracked"
  /\ \E parts \in Splittings(tracked.clean) :
       /\ split_string' = parts
       /\ restored' = add_back_removed_parts(parts, tracked.removals)
  /\ pc' = "add_back_removed_parts"
  /\ UNCHANGED <<string, default_color, brightness_steps, escape_char, ansi, previous, escaped, escaped_again, stripped, tracked, token, line_ansi, console_vars, regex_vars>>

NextReinsert == RemoveAnsi \/ RemoveAnsiTracked \/ AddBackRemovedParts

SpecReinsert == InitReinsert /\ [][NextReinsert]_vars

\* C30: for every ANSI string without line breaks and every list of parts whose
\* concatenation is its clean string (no parts, and parts of length zero, among them)
\* _add_back_removed_parts returns without raising a list of as many parts whose
\* concatenation is the ANSI string
C30_Reinsertion ==
  pc = "add_back_removed_parts" =>
    /\ restored.raised = "none"
    /\ Len(restored.value) = Len(split_string)
    /\ Concat(restored.value) = string

====
